---- MODULE Spec2Model ----
(***************************************************************************)
(* The mutex-based single-value future of src/src/future/val.rs: one core  *)
(* (value slot, completion state, condition variable) shared by a          *)
(* FutureVal (consumer handle) and a Completer (producer handle).          *)
(*                                                                         *)
(* Two OS threads run: "cons" owns the FutureVal, "prod" owns the          *)
(* Completer.  Each thread has a call stack of frames, because callbacks   *)
(* are invoked on the stack of whichever thread triggers them.             *)
(***************************************************************************)
EXTENDS Integers, Sequences, FiniteSets, TLC

\* ---------------------------------------------------------------- bounds
\* Longest chain of producer-interest operations before complete/fail/drop.
MaxChain == 3
\* Number of spurious condition-variable wake-ups allowed in one run.
MaxSpurious == 1

Values == {1, 2}
Descs == {"nope"}
Threads == {"cons", "prod"}
NoThread == "none"
NoVal == 0

ProducerOps == {"receive", "take"}
Finals == {"complete", "fail", "drop"}
ConsumerOps == {"receive", "take", "drop"}

RECURSIVE SeqsUpTo(_, _)
SeqsUpTo(S, n) ==
    IF n = 0 THEN {<<>>}
    ELSE LET shorter == SeqsUpTo(S, n - 1)
         IN shorter \cup {Append(s, x) : s \in {q \in shorter : Len(q) = n - 1}, x \in S}

Chains == SeqsUpTo(ProducerOps, MaxChain)

VARIABLES
    \* ---- the core (val.rs Core<T> behind MutexCell)
    mutex,       \* owner of the core's mutex, or NoThread
    val,         \* Core.val: NoVal (None) or the realized value
    completion,  \* Core.completion
    waiters,     \* threads blocked in core.wait(&core.condvar)
    \* ---- the threads
    stack,       \* stack[t]: sequence of frames, the last one is executing
    panicked,    \* panicked[t]: the thread unwound through a panic
    \* ---- the program run by the two threads (fixed by Init)
    consOp,      \* what the consumer thread does with the FutureVal
    chain,       \* producer-interest operations the producer performs in order
    final,       \* what the producer finally does with the Completer
    value,       \* argument of complete
    desc,        \* argument of fail
    \* ---- observations
    got,         \* results handed to the consumer (callback argument / take result)
    pcb,         \* producer callbacks invoked, in order
    registered,  \* producer callbacks passed to Completer.receive so far
    stored,      \* producer callbacks that completer_receive stored in the core
    ctake,       \* one entry per return of Completer.take
    consCalled,  \* the consumer has called receive or take
    finalSt,     \* the final producer operation that has been called, or "none"
    completeRet, \* complete has returned to its caller
    spurious     \* spurious wake-ups so far

program == <<consOp, chain, final, value, desc>>
calls == <<finalSt, completeRet>>

\* --------------------------------------------------------------------------
\* State of the other components of the crate.  Each component is exercised
\* by a specification of its own; while one component runs, the state of the
\* others stays at its "off" value.

\* ---- LinkedQueue<T> (src/src/linked_queue.rs)
VARIABLES
    capacity,    \* QueueInner.capacity
    count,       \* QueueInner.count (AtomicUint)
    head,        \* node guarded by the head mutex (the sentinel)
    last,        \* node guarded by the last mutex (the tail)
    nodes,       \* heap of Node<T>: nodes[i] = [next, item, freed]
    headLock,    \* owner of the head mutex, or 0
    lastLock,    \* owner of the last mutex, or 0
    notEmpty,    \* threads blocked in not_empty.wait
    notFull,     \* threads blocked in not_full.wait
    qprog,       \* qprog[t]: the operation thread t calls, and how many times
    qpc,         \* qpc[t]: position of thread t inside its current call
    qdone,       \* qdone[t]: calls of thread t that have returned
    qloc,        \* qloc[t]: locals of the current call (cnt, val)
    linked,      \* elements in the order enqueue linked them
    taken,       \* elements in the order dequeue unlinked them
    qres,        \* one entry per returned call
    qspurious    \* spurious wake-ups so far

qvars == <<capacity, count, head, last, nodes, headLock, lastLock, notEmpty, notFull,
           qprog, qpc, qdone, qloc, linked, taken, qres, qspurious>>

QueueOff ==
    /\ capacity = 0 /\ count = 0 /\ head = 0 /\ last = 0 /\ nodes = <<>>
    /\ headLock = 0 /\ lastLock = 0 /\ notEmpty = {} /\ notFull = {}
    /\ qprog = <<>> /\ qpc = <<>> /\ qdone = <<>> /\ qloc = <<>>
    /\ linked = <<>> /\ taken = <<>> /\ qres = <<>> /\ qspurious = 0

\* ---- Park (src/src/sync/park.rs)
VARIABLES
    permit,      \* Park.state: 1 for an unconsumed unpark, 0 otherwise
    pmutex,      \* owner of Park.mutex, or NoThread
    pcond,       \* threads blocked in pthread_cond_wait on Park.condvar
    ppc,         \* ppc[t]: position of thread t inside park_ms / unpark
    pcur,        \* the park call in progress: how it is going to return
    plog,        \* one entry per return of park
    unparked,    \* number of unpark calls that have returned
    nparks,      \* number of park calls the parking thread makes
    nunparks,    \* number of unpark calls the other thread makes
    pspurious    \* spurious wake-ups so far

pkvars == <<permit, pmutex, pcond, ppc, pcur, plog, unparked, nparks, nunparks, pspurious>>

ParkOff ==
    /\ permit = 0 /\ pmutex = "none" /\ pcond = {}
    /\ ppc = <<>> /\ pcur = <<>> /\ plog = <<>> /\ unparked = 0
    /\ nparks = 0 /\ nunparks = 0 /\ pspurious = 0

\* ---- the lock-free pair (src/src/future/pair.rs)
VARIABLES
    pstate,      \* Core.state: ref count, wait strategy and future state bits
    pvalue,      \* Core.value: NoVal while uninitialized
    pfreed,      \* the Core has been deallocated
    prpc,        \* prpc[t]: position of thread t inside take / complete
    prold,       \* prold[t]: the local `old` of take
    prgot,       \* what take returned, NoVal before that
    prval,       \* the argument of complete
    prwhen,      \* where the consumer was when complete published the value
    prel         \* the calls of release made so far, in order

prvars == <<pstate, pvalue, pfreed, prpc, prold, prgot, prval, prwhen, prel>>

PairOff ==
    /\ pstate = 0 /\ pvalue = NoVal /\ pfreed = FALSE
    /\ prpc = <<>> /\ prold = <<>> /\ prgot = NoVal /\ prval = NoVal /\ prwhen = "none"
    /\ prel = <<>>

\* ---- Seq / SeqProducer (src/src/future/seq.rs)
VARIABLES
    smutex,      \* owner of the mutex around the seq Core, or NoThread
    shead,       \* Core.head: NoVal (None) or the value v of Some(More(v))
    sstate,      \* Core.state
    slast,       \* Core.last_observed
    swaiters,    \* threads blocked in l.wait(&l.condvar)
    sstack,      \* sstack[t]: call stack of thread t
    cprog,       \* operations the consumer performs on the Seq, in order
    pchain,      \* number of SeqProducer.receive calls the producer makes
    pfinal,      \* what the producer finally does with the SeqProducer
    sval,        \* argument of send
    cidx,        \* consumer operations started
    pidx,        \* producer operations started
    sinv,        \* callbacks invoked, in order
    sgot,        \* values returned by Seq.take
    spanicked,   \* spanicked[t]: the thread unwound through a panic
    sspurious    \* spurious wake-ups so far

sqvars == <<smutex, shead, sstate, slast, swaiters, sstack, cprog, pchain, pfinal, sval,
            cidx, pidx, sinv, sgot, spanicked, sspurious>>

SeqOff ==
    /\ smutex = "none" /\ shead = NoVal /\ sstate = [kind |-> "Pending", cb |-> 0]
    /\ slast = "Full" /\ swaiters = {}
    /\ sstack = [t \in Threads |-> <<>>]
    /\ cprog = <<>> /\ pchain = 0 /\ pfinal = "drop" /\ sval = 1
    /\ cidx = 0 /\ pidx = 0 /\ sinv = <<>> /\ sgot = <<>>
    /\ spanicked = [t \in Threads |-> FALSE]
    /\ sspurious = 0

\* ---- combinators over futures (src/src/future/future.rs)
VARIABLES
    kcore,       \* kcore[c]: value slot and completion of future core c
    kstack,      \* kstack[t]: call stack of thread t
    klog,        \* what has happened so far, in order
    kplan,       \* the combinator built, the consumer's operation, the sources
    kjoin,       \* the values a join has collected from its sources
    kpanicked    \* the threads that unwound through a panic

kvars == <<kcore, kstack, klog, kplan, kjoin, kpanicked>>

CombOff ==
    /\ kcore = <<>> /\ kstack = [t \in Threads |-> <<>>] /\ klog = <<>>
    /\ kplan = <<>> /\ kjoin = <<>> /\ kpanicked = {}

\* ---- the timed wait of Park (src/src/sync/park.rs, timed_wait / ms_to_abs)
VARIABLES
    twms,        \* the argument ms of timed_wait
    twnow,       \* what get_time() returns inside ms_to_abs
    twabs,       \* the timespec ms_to_abs returned, <<>> before that
    twpc         \* position inside timed_wait

twvars == <<twms, twnow, twabs, twpc>>

TimedOff == twms = 0 /\ twnow = <<>> /\ twabs = <<>> /\ twpc = "off"

others == <<qvars, pkvars, prvars, sqvars, kvars, twvars>>
OthersOff == QueueOff /\ ParkOff /\ PairOff /\ SeqOff /\ CombOff /\ TimedOff

vars == <<mutex, val, completion, waiters, stack, panicked, consOp, chain, final,
          value, desc, got, pcb, registered, stored, ctake, consCalled, finalSt,
          completeRet, spurious, others>>

\* ------------------------------------------------------- Completion<T>
Pending == [kind |-> "Pending", strat |-> "None", cb |-> 0]
ConsumerWait(s) == [kind |-> "ConsumerWait", strat |-> s, cb |-> 0]
CompleterWait(s, k) == [kind |-> "CompleterWait", strat |-> s, cb |-> k]

\* Faulty variant: the Pending test of completer_receive / completer_take never succeeds.
is_pending_never(c) == FALSE
is_pending(c) == c.kind = "Pending"
\* Faulty variant: only a blocked consumer is recognised as waiting.
is_consumer_wait_sync_only(c) == c.kind = "ConsumerWait" /\ c.strat = "Sync"
is_consumer_wait(c) == c.kind = "ConsumerWait"
is_completer_wait(c) == c.kind = "CompleterWait"

\* take_consumer_wait / take_completer_wait: the value returned ...
take_consumer_wait(c) == IF is_consumer_wait(c) THEN c ELSE Pending
\* Faulty variant: the producer's wait state is never noticed.
take_completer_wait_none(c) == Pending
take_completer_wait(c) == IF is_completer_wait(c) THEN c ELSE Pending
\* ... and the completion left behind by mem::replace.
\* Faulty variant of the two below: the wait state is read but not replaced.
KeepCompletion(c) == c
after_take_consumer_wait(c) == IF is_consumer_wait(c) THEN Pending ELSE c
after_take_completer_wait(c) == IF is_completer_wait(c) THEN Pending ELSE c

\* What the consumer is handed, and by which function of FutureImpl.  val.rs
\* delivers the bare T.
Delivered(v, f) == [kind |-> "Value", val |-> v, desc |-> "", by |-> f]

\* --------------------------------------------------------------- frames
Frame(f, p, i) == [fn |-> f, pc |-> p, i |-> i]
Running(t) == stack[t] # <<>>
Top(t) == stack[t][Len(stack[t])]
At(t, f, p) == Running(t) /\ Top(t).fn = f /\ Top(t).pc = p
SetTop(s, fr) == [s EXCEPT ![Len(s)] = fr]
Pop(s) == SubSeq(s, 1, Len(s) - 1)
Goto(t, p) == [stack EXCEPT ![t] = SetTop(@, [Top(t) EXCEPT !.pc = p])]
Call(t, p, fr) == [stack EXCEPT ![t] = Append(SetTop(@, [Top(t) EXCEPT !.pc = p]), fr)]
Return(t) == [stack EXCEPT ![t] = Pop(@)]
Unwind(t) == [stack EXCEPT ![t] = <<>>]

\* drop(core) by thread t, the owner of the guard: the new owner of the mutex.
\* Faulty variant of drop_guard: the guard is kept while the callback runs.
keep_guard(t) == t
drop_guard(t) == NoThread

\* condvar.signal(): wakes one blocked thread if there is one.
\* Faulty variant of Signal: the signal is dropped.
NoSignal(w) == {w}
Signal(w) == IF w = {} THEN {w} ELSE {w \ {t} : t \in w}

\* The callback handed to Completer.receive as cb k continues the producer's
\* program after chain position k.
CallbackFrame(k) == Frame("cb", "call", k + 1)

\* An invocation of producer callback k: it is handed a Completer over the
\* core (val.rs has no Result here); direct = invoked by completer_receive
\* itself rather than by notify_completer.
Invoked(k, d) == [cb |-> k, arg |-> "Completer", called |-> consCalled, direct |-> d]

TypeOK ==
    /\ mutex \in Threads \cup {NoThread}
    /\ val \in Values \cup {NoVal}
    /\ completion.kind \in {"Pending", "ConsumerWait", "CompleterWait"}
    /\ waiters \subseteq Threads
    /\ \A t \in Threads : Len(stack[t]) <= 2 * MaxChain + 3
    /\ consOp \in ConsumerOps /\ chain \in Chains /\ final \in Finals
    /\ value \in Values /\ desc \in Descs
    /\ spurious \in 0..MaxSpurious

Init ==
    /\ mutex = NoThread
    /\ val = NoVal
    /\ completion = Pending
    /\ waiters = {}
    /\ stack = [t \in Threads |->
                  IF t = "cons" THEN <<Frame("consumer", "call", 0)>>
                  ELSE <<Frame("producer", "call", 1)>>]
    /\ panicked = [t \in Threads |-> FALSE]
    /\ consOp \in ConsumerOps
    /\ chain \in Chains
    /\ final \in Finals
    /\ value \in Values
    /\ desc \in Descs
    /\ got = <<>>
    /\ pcb = <<>>
    /\ registered = {}
    /\ stored = {}
    /\ ctake = <<>>
    /\ consCalled = FALSE
    /\ finalSt = "none"
    /\ completeRet = FALSE
    /\ spurious = 0
    /\ OthersOff

\* ------------------------------------------------------ consumer thread
\* The consumer thread's body: f.receive(cb), f.take() or drop(f).
ConsumerRun(t) ==
    /\ At(t, "consumer", "call")
    /\ IF consOp = "drop"
       THEN /\ stack' = Goto(t, "ret")
            /\ UNCHANGED consCalled
       ELSE /\ stack' = Call(t, "ret", Frame(consOp, "lock", 0))
            /\ consCalled' = TRUE
    /\ UNCHANGED <<mutex, val, completion, waiters, panicked, program, others, calls, got, pcb,
                   registered, stored, ctake, spurious>>

\* self.lock(): every operation on the core starts by acquiring the mutex;
\* notify_completer re-acquires it after a producer callback returned.
Lock(t) ==
    /\ Running(t) /\ Top(t).pc = "lock"
    /\ mutex = NoThread
    /\ mutex' = t
    /\ stack' = Goto(t, "locked")
    /\ UNCHANGED <<val, completion, waiters, panicked, program, others, calls, got, pcb,
                   registered, stored, ctake, consCalled, spurious>>

\* One iteration of the loop of notify_completer, run by receive and take.
NotifyCompleter(t) ==
    /\ Running(t) /\ Top(t).fn \in {"receive", "take"} /\ Top(t).pc = "locked"
    /\ mutex = t
    /\ LET w == take_completer_wait(completion) IN
       IF is_completer_wait(w)
       THEN /\ completion' = after_take_completer_wait(completion)
            /\ IF w.strat = "Callback"
               THEN \* drop(core); cb.call_once(Completer); core = self.lock()
                    /\ mutex' = drop_guard(t)
                    /\ stack' = Call(t, "lock", CallbackFrame(w.cb))
                    /\ pcb' = Append(pcb, Invoked(w.cb, FALSE))
                    /\ UNCHANGED waiters
               ELSE \* Sync => core.condvar.signal()
                    /\ waiters' \in Signal(waiters)
                    /\ UNCHANGED <<mutex, stack, pcb>>
       ELSE /\ stack' = Goto(t, "notified")
            /\ UNCHANGED <<mutex, completion, waiters, pcb>>
    /\ UNCHANGED <<val, panicked, program, others, calls, got, registered, stored, ctake,
                   consCalled, spurious>>

\* FutureImpl::receive after notify_completer.
Receive(t) ==
    /\ At(t, "receive", "notified")
    /\ mutex = t
    /\ mutex' = drop_guard(t)
    /\ IF val # NoVal
       THEN \* take_value; drop(core); then cb(val)
            /\ val' = NoVal
            /\ stack' = [stack EXCEPT ![t] = SetTop(@, Frame("receive", "invoke", val))]
            /\ UNCHANGED completion
       ELSE /\ completion' = ConsumerWait("Callback")
            /\ stack' = Return(t)
            /\ UNCHANGED val
    /\ UNCHANGED <<waiters, panicked, program, others, calls, got, pcb, registered, stored, ctake,
                   consCalled, spurious>>

\* The consumer's callback runs, in receive (value was ready) or in complete.
ConsumerCallback(t) ==
    /\ Running(t) /\ Top(t).fn \in {"receive", "complete"} /\ Top(t).pc = "invoke"
    /\ got' = Append(got, Delivered(Top(t).i, Top(t).fn))
    /\ stack' = Goto(t, "ret")
    /\ UNCHANGED <<mutex, val, completion, waiters, panicked, program, others, calls, pcb,
                   registered, stored, ctake, consCalled, spurious>>

\* FutureImpl::take after notify_completer: install ConsumerWait(Sync).
Take(t) ==
    /\ At(t, "take", "notified")
    /\ mutex = t
    /\ completion' = ConsumerWait("Sync")
    /\ stack' = Goto(t, "loop")
    /\ UNCHANGED <<mutex, val, waiters, panicked, program, others, calls, got, pcb, registered,
                   stored, ctake, consCalled, spurious>>

\* The loop of take: return the value if there is one, else wait.
TakeLoop(t) ==
    /\ At(t, "take", "loop")
    /\ mutex = t
    /\ mutex' = NoThread
    /\ IF val # NoVal
       THEN /\ val' = NoVal
            /\ got' = Append(got, Delivered(val, "take"))
            /\ stack' = Return(t)
            /\ UNCHANGED waiters
       ELSE /\ waiters' = waiters \cup {t}
            /\ stack' = Goto(t, "wait")
            /\ UNCHANGED <<val, got>>
    /\ UNCHANGED <<completion, panicked, program, others, calls, pcb, registered, stored, ctake,
                   consCalled, spurious>>

\* core.wait returns: the thread was signalled (or woke spuriously) and has the
\* mutex again.
WaitReturn(t) ==
    /\ Running(t) /\ Top(t).pc = "wait"
    /\ t \notin waiters
    /\ mutex = NoThread
    /\ mutex' = t
    /\ stack' = Goto(t, IF Top(t).fn = "take" THEN "loop" ELSE "recheck")
    /\ UNCHANGED <<val, completion, waiters, panicked, program, others, calls, got, pcb,
                   registered, stored, ctake, consCalled, spurious>>

\* A wake-up "for an unknown reason (permitted by the pthread spec)".
SpuriousWakeup(t) ==
    /\ t \in waiters
    /\ spurious < MaxSpurious
    /\ waiters' = waiters \ {t}
    /\ spurious' = spurious + 1
    /\ UNCHANGED <<mutex, val, completion, stack, panicked, program, others, calls, got, pcb,
                   registered, stored, ctake, consCalled>>

\* A frame whose work is done returns to its caller.
Ret(t) ==
    /\ Running(t) /\ Top(t).pc = "ret"
    /\ stack' = Return(t)
    /\ completeRet' = (completeRet \/ Top(t).fn = "complete")
    /\ UNCHANGED <<mutex, val, completion, waiters, panicked, program, others, finalSt, got, pcb,
                   registered, stored, ctake, consCalled, spurious>>

\* ------------------------------------------------------ producer thread
\* The producer's program: the thread body ("producer") or a producer
\* callback ("cb") performs the next operation on the Completer it holds.
ProducerRun(t) ==
    /\ Running(t) /\ Top(t).fn \in {"producer", "cb"} /\ Top(t).pc = "call"
    /\ LET i == Top(t).i IN
       IF i <= Len(chain)
       THEN IF chain[i] = "receive"
            THEN \* c.receive(cb_i)
                 /\ stack' = Call(t, "ret", Frame("completer_receive", "lock", i))
                 /\ registered' = registered \cup {i}
                 /\ UNCHANGED panicked
            ELSE \* c.take() and then go on with the Completer it returns
                 /\ stack' = [stack EXCEPT ![t] =
                                Append(SetTop(@, [Top(t) EXCEPT !.i = i + 1]),
                                       Frame("completer_take", "lock", 0))]
                 /\ UNCHANGED <<registered, panicked>>
       ELSE CASE final = "complete" ->
                 /\ stack' = Call(t, "ret", Frame("complete", "lock", value))
                 /\ UNCHANGED <<registered, panicked>>
              [] final = "fail" ->
                 \* FutureImpl::fail is unimplemented!(): the thread panics
                 /\ stack' = Unwind(t)
                 /\ panicked' = [panicked EXCEPT ![t] = TRUE]
                 /\ UNCHANGED registered
              [] OTHER ->
                 \* drop(c): Completer has no destructor, the core is untouched
                 /\ stack' = Goto(t, "ret")
                 /\ UNCHANGED <<registered, panicked>>
    /\ finalSt' = IF Top(t).i <= Len(chain) THEN finalSt ELSE final
    /\ UNCHANGED <<mutex, val, completion, waiters, program, others, completeRet, got, pcb, stored,
                   ctake, consCalled, spurious>>

\* FutureImpl::completer_receive under the lock.
CompleterReceive(t) ==
    /\ At(t, "completer_receive", "locked")
    /\ mutex = t
    /\ mutex' = drop_guard(t)
    /\ LET k == Top(t).i IN
       IF is_pending(completion)
       THEN /\ completion' = CompleterWait("Callback", k)
            /\ stored' = stored \cup {k}
            /\ stack' = Return(t)
            /\ UNCHANGED pcb
       ELSE \* drop(core); cb(Completer::new(self))
            /\ stack' = Call(t, "ret", CallbackFrame(k))
            /\ pcb' = Append(pcb, Invoked(k, TRUE))
            /\ UNCHANGED <<completion, stored>>
    /\ UNCHANGED <<val, waiters, panicked, program, others, calls, got, registered, ctake,
                   consCalled, spurious>>

\* Faulty variant of CompleterTake: returns the Completer without waiting.
CompleterTakeNoWait(t) ==
    /\ At(t, "completer_take", "locked")
    /\ mutex = t
    /\ mutex' = NoThread
    /\ stack' = Return(t)
    /\ ctake' = Append(ctake, consCalled)
    /\ UNCHANGED <<val, completion, waiters, panicked, program, others, calls, got, pcb,
                   registered, stored, consCalled, spurious>>

\* FutureImpl::completer_take under the lock, first visit.
CompleterTake(t) ==
    /\ At(t, "completer_take", "locked")
    /\ mutex = t
    /\ mutex' = NoThread
    /\ IF is_pending(completion)
       THEN /\ completion' = CompleterWait("Sync", 0)
            /\ waiters' = waiters \cup {t}
            /\ stack' = Goto(t, "wait")
            /\ UNCHANGED ctake
       ELSE /\ stack' = Return(t)
            /\ ctake' = Append(ctake, consCalled)
            /\ UNCHANGED <<completion, waiters>>
    /\ UNCHANGED <<val, panicked, program, others, calls, got, pcb, registered, stored,
                   consCalled, spurious>>

\* The wait loop of completer_take after core.wait returned.
CompleterTakeLoop(t) ==
    /\ At(t, "completer_take", "recheck")
    /\ mutex = t
    /\ mutex' = NoThread
    /\ IF ~is_completer_wait(completion)
       THEN /\ stack' = Return(t)
            /\ ctake' = Append(ctake, consCalled)
            /\ UNCHANGED waiters
       ELSE /\ waiters' = waiters \cup {t}
            /\ stack' = Goto(t, "wait")
            /\ UNCHANGED ctake
    /\ UNCHANGED <<val, completion, panicked, program, others, calls, got, pcb, registered,
                   stored, consCalled, spurious>>

\* FutureImpl::complete under the lock.
Complete(t) ==
    /\ At(t, "complete", "locked")
    /\ mutex = t
    /\ mutex' = drop_guard(t)
    /\ LET w == take_consumer_wait(completion)
           v == Top(t).i
       IN
       IF is_consumer_wait(w) /\ w.strat = "Callback"
       THEN \* drop(core); cb.call_once((val,))
            /\ completion' = after_take_consumer_wait(completion)
            /\ stack' = Goto(t, "invoke")
            /\ UNCHANGED <<val, waiters, panicked, completeRet>>
       ELSE IF val # NoVal
       THEN \* put: assert!(self.val.is_none(), "future already completed")
            /\ stack' = Unwind(t)
            /\ panicked' = [panicked EXCEPT ![t] = TRUE]
            /\ completion' = after_take_consumer_wait(completion)
            /\ UNCHANGED <<val, waiters, completeRet>>
       ELSE /\ completion' = after_take_consumer_wait(completion)
            /\ val' = v
            /\ waiters' \in (IF is_consumer_wait(w) THEN Signal(waiters) ELSE {waiters})
            /\ stack' = Return(t)
            /\ completeRet' = TRUE
            /\ UNCHANGED panicked
    /\ UNCHANGED <<program, others, finalSt, got, pcb, registered, stored, ctake, consCalled, spurious>>

\* ---------------------------------------------------------- specification
Step(t) ==
    \/ ConsumerRun(t)
    \/ Lock(t)
    \/ NotifyCompleter(t)
    \/ Receive(t)
    \/ ConsumerCallback(t)
    \/ Take(t)
    \/ TakeLoop(t)
    \/ WaitReturn(t)
    \/ Ret(t)
    \/ ProducerRun(t)
    \/ CompleterReceive(t)
    \/ CompleterTake(t)
    \/ CompleterTakeLoop(t)
    \/ Complete(t)

Next ==
    \/ \E t \in Threads : Step(t)
    \/ \E t \in Threads : SpuriousWakeup(t)

Spec == Init /\ [][Next]_vars

\* OS threads are scheduled fairly: a thread that can take a step (its mutex
\* is free, it was signalled) eventually takes one.  Spurious wake-ups are
\* never required to happen.
FairSpec == Spec /\ \A t \in Threads : WF_vars(Step(t))

\* ------------------------------------------------------------ vocabulary
AllOf(op) == \A i \in 1..Len(chain) : chain[i] = op
ConsumerActs == consOp \in {"receive", "take"}
OnStack(t, f) == \E i \in 1..Len(stack[t]) : stack[t][i].fn = f
Active(f) == \E t \in Threads : OnStack(t, f)
\* Number of producer callbacks executing (frames "cb" on any stack).
CbFrames(t) == {i \in 1..Len(stack[t]) : stack[t][i].fn = "cb"}
Depth == Cardinality(CbFrames("cons")) + Cardinality(CbFrames("prod"))
\* The consumer's receive / take has returned to the consumer thread's body.
ConsumerReturned ==
    /\ consCalled /\ ~panicked["cons"]
    /\ ~OnStack("cons", "receive") /\ ~OnStack("cons", "take")
\* The consumer was handed exactly the value v, once.
GotOnly(v) == Len(got) = 1 /\ got[1].kind = "Value" /\ got[1].val = v
AtMostOnce(v) == Len(got) <= 1 /\ \A i \in 1..Len(got) : got[i].kind = "Value" /\ got[i].val = v

\* ------------------------------------------------------------------ C1
ReceiveComplete == consOp = "receive" /\ chain = <<>> /\ final = "complete"

\* C1: one FutureVal.receive(cb) and one Completer.complete(v) on the same
\* pair, in any interleaving: cb is never invoked twice nor with anything but
\* v, and is eventually invoked (exactly once, with v).
C1_ReceiveCompleteExactlyOnce ==
    /\ [](ReceiveComplete => AtMostOnce(value))
    /\ [](ReceiveComplete => <>GotOnly(value))

\* Both operations have finished and cb ran inside complete (receive first).
C1_Witness ==
    /\ ReceiveComplete /\ GotOnly(value) /\ got[1].by = "complete"
    /\ stack["cons"] = <<>> /\ stack["prod"] = <<>>

\* ------------------------------------------------------------------ C2
\* The consumer's callback was stored by receive and later invoked by complete.
CallbackStored == \E i \in 1..Len(got) : got[i].by = "complete"

\* C2 (as stated): when receive(cb) is registered before complete(v), cb is
\* invoked only after complete has returned to the producer.
C2_CallbackAfterCompleteReturns ==
    (ReceiveComplete /\ got # <<>> /\ got[1].by = "complete") => completeRet

\* C2 (amended): when receive(cb) is registered before complete(v), it is the
\* complete call that takes cb out of the core and invokes it, with v and
\* without the lock, before it returns: complete is still on the producer's
\* stack while cb runs, and once complete has returned cb has been invoked
\* exactly once with v.
C2_CallbackInsideComplete ==
    /\ \A t \in Threads :
          At(t, "complete", "invoke") =>
              /\ mutex # t /\ got = <<>> /\ ~completeRet /\ val = NoVal
              /\ is_pending(completion)
              /\ Top(t).i = value
    /\ (CallbackStored /\ ~completeRet) => Active("complete")
    /\ (ReceiveComplete /\ completeRet /\ ConsumerReturned) => GotOnly(value)
    /\ CallbackStored => GotOnly(value)

\* cb has run and complete has not yet returned.
C2_Witness ==
    /\ ReceiveComplete /\ GotOnly(value) /\ got[1].by = "complete"
    /\ At("prod", "complete", "ret") /\ ~completeRet

\* ------------------------------------------------------------------ C3
TakeComplete == consOp = "take" /\ chain = <<>> /\ final = "complete"

\* C3: the blocking FutureVal.take() and Completer.complete(v), in any
\* interleaving: take eventually returns, and what it returns is v (the
\* signal of complete is never lost).
C3_TakeReturnsValue ==
    /\ [](TakeComplete => AtMostOnce(value))
    /\ [](TakeComplete => <>(GotOnly(value) /\ ConsumerReturned))

\* take blocked first, was signalled by complete, and returned v.
C3_Witness ==
    /\ TakeComplete /\ GotOnly(value) /\ ConsumerReturned
    /\ spurious = 0 /\ completion = Pending /\ completeRet

\* ------------------------------------------------------------------ C4
Invocations(k) == Cardinality({i \in 1..Len(pcb) : pcb[i].cb = k})
CallbackIds == 1..MaxChain

\* C4: a callback registered with Completer.receive(cb) is never invoked
\* before the consumer has called receive or take, never invoked twice, and
\* once it is registered and the consumer has called, it is eventually invoked.
C4_ProducerCallbackOnInterest ==
    /\ [](\A i \in 1..Len(pcb) :
            pcb[i].called /\ pcb[i].cb \in registered /\ pcb[i].arg = "Completer")
    /\ [](\A k \in CallbackIds : Invocations(k) <= 1)
    /\ \A k \in CallbackIds :
          []((k \in registered /\ consCalled) => <>(Invocations(k) = 1))

\* A callback stored while the core was Pending has been invoked by the
\* consumer's notify_completer, and so has the one it re-registered.
C4_Witness ==
    /\ Len(pcb) >= 2
    /\ ~pcb[1].direct /\ pcb[1].cb \in stored /\ pcb[1].arg = "Completer"

\* ------------------------------------------------------------------ C5
ReceiveChain == AllOf("receive") /\ Len(chain) >= 1 /\ final = "complete" /\ ConsumerActs

\* C5: the producer registers c.receive(cb_1), every cb_i re-registers
\* c.receive(cb_i+1), the last callback calls complete(v); with a consumer
\* receive or take, the consumer is handed v exactly once.
C5_ChainDeliversOnce ==
    /\ [](ReceiveChain => AtMostOnce(value))
    /\ [](ReceiveChain => <>GotOnly(value))

\* A chain of MaxChain callbacks, all drained by the consumer, delivered v.
C5_Witness ==
    /\ ReceiveChain /\ Len(chain) = MaxChain /\ GotOnly(value)
    /\ Len(pcb) = MaxChain /\ \A i \in 1..Len(pcb) : ~pcb[i].direct

TakeChain == AllOf("take") /\ Len(chain) >= 1 /\ final = "complete" /\ ConsumerActs

\* C7: Completer.take() never returns before the consumer has called receive
\* or take; a chain c.take()...take().complete(v) terminates: every take
\* returns and the consumer is handed v exactly once.
C7_CompleterTake ==
    /\ [](\A i \in 1..Len(ctake) : ctake[i])
    /\ [](TakeChain => AtMostOnce(value))
    /\ [](TakeChain => <>(GotOnly(value) /\ Len(ctake) = Len(chain)
                            /\ stack["prod"] = <<>>))

\* Three takes returned, the first one after blocking, and v was delivered.
C7_Witness ==
    /\ TakeChain /\ Len(chain) = MaxChain /\ Len(ctake) = MaxChain
    /\ GotOnly(value) /\ spurious = 0 /\ stack["prod"] = <<>> /\ ConsumerReturned

\* ------------------------------------------------------------------ C8
IsError(r, k) == r.kind = k

\* C8: once the Completer has been dropped without complete or fail, a
\* consumer callback (pending or registered later) has been invoked with a
\* CancelationError by the time both calls are over, and a consumer take is
\* not left blocked on the condition variable.
C8_ProducerDropCancels ==
    finalSt = "drop" =>
        /\ (consOp = "receive" /\ ConsumerReturned) =>
              (Len(got) = 1 /\ IsError(got[1], "CancelationError"))
        /\ consOp = "take" => "cons" \notin waiters

\* ------------------------------------------------------------------ C9
ConsumerDropped == consOp = "drop" /\ stack["cons"] = <<>>

\* C9: once the FutureVal has been dropped, every producer callback that
\* Completer.receive has taken has been invoked with a cancellation error, and
\* a producer take is not left blocked on the condition variable.
C9_ConsumerDropCancels ==
    ConsumerDropped =>
        /\ \A k \in stored :
              \E i \in 1..Len(pcb) : pcb[i].cb = k /\ pcb[i].arg = "CancelationError"
        /\ "prod" \notin waiters

\* ----------------------------------------------------------------- C10
\* C10: once fail(desc) has been called and the consumer's receive is over,
\* the callback has been invoked with an ExecutionError whose description is
\* desc; a consumer take is not left blocked, and the caller of fail goes on.
C10_FailDeliversExecutionError ==
    finalSt = "fail" =>
        /\ (consOp = "receive" /\ ConsumerReturned) =>
              (Len(got) = 1 /\ IsError(got[1], "ExecutionError") /\ got[1].desc = desc)
        /\ consOp = "take" => "cons" \notin waiters
        /\ \A t \in Threads : ~panicked[t]

\* ==========================================================================
\* LinkedQueue<T> (src/src/linked_queue.rs): a bounded linked queue with a
\* head mutex for dequeuers, a last mutex for enqueuers, an atomic count and
\* the condition variables not_empty and not_full.
\* ==========================================================================

\* ---------------------------------------------------------------- bounds
\* Largest capacity a queue is built with.
MaxCapacity == 2
\* Largest number of calls the threads make in one run, all together.
MaxCalls == 4

QThreads == {1, 2, 3}
QueueOps == {"offer", "put", "poll", "take"}
Enqueuers == {"offer", "put"}
OpRank(op) == CASE op = "offer" -> 1 [] op = "put" -> 2 [] op = "poll" -> 3 [] op = "take" -> 4
Null == 0
None == 0

\* The element passed by the k-th call of thread t; the elements a queue
\* already holds when the threads start are 1, 2, ...
Elem(t, k) == 10 * t + k

\* Node::new(val) / Node::empty()
\* Faulty variant of Node: the new node carries no item.
EmptyNode(x) == [next |-> Null, item |-> None, freed |-> FALSE]
Node(x) == [next |-> Null, item |-> x, freed |-> FALSE]

\* self.len() == self.capacity, on a value c read from count
\* Faulty variant of Full: the queue is never considered full.
NeverFull(c) == FALSE
Full(c) == c = capacity

\* dur <= 0 in offer_for_ms / poll_for_ms: offer and poll pass 0, put and
\* take pass u64::MAX.
\* Faulty variant of Expired: every call waits.
ExpiredNever(op) == FALSE
Expired(op) == op \in {"offer", "poll"}

\* cnt == self.capacity in poll_for_ms, on the value cnt returned by fetch_sub
\* Faulty variant of WasFull: a dequeuer never calls notify_not_full.
WasFullNever(cnt) == FALSE
WasFull(cnt) == cnt = capacity

\* Condvar::notify_one
\* Faulty variant of NotifyOne: the notification is dropped.
NotifyNone(w) == {w}
NotifyOne(w) == Signal(w)

fvars == <<mutex, val, completion, waiters, stack, panicked, consOp, chain, final,
           value, desc, got, pcb, registered, stored, ctake, consCalled, finalSt,
           completeRet, spurious>>

FutureOff ==
    /\ mutex = NoThread /\ val = NoVal /\ completion = Pending /\ waiters = {}
    /\ stack = [t \in Threads |-> <<>>]
    /\ panicked = [t \in Threads |-> FALSE]
    /\ consOp = "drop" /\ chain = <<>> /\ final = "drop"
    /\ value = 1 /\ desc = "nope"
    /\ got = <<>> /\ pcb = <<>> /\ registered = {} /\ stored = {} /\ ctake = <<>>
    /\ consCalled = FALSE /\ finalSt = "none" /\ completeRet = FALSE
    /\ spurious = 0

QueueRest == <<fvars, pkvars, prvars, sqvars, kvars, twvars>>

qconf == <<capacity, qprog>>
qlist == <<head, last, nodes>>
qlogs == <<linked, taken>>

QueueTypeOK ==
    /\ capacity \in 1..MaxCapacity
    /\ count \in Int
    /\ head \in 1..Len(nodes) /\ last \in 1..Len(nodes)
    /\ headLock \in QThreads \cup {0} /\ lastLock \in QThreads \cup {0}
    /\ notEmpty \subseteq QThreads /\ notFull \subseteq QThreads
    /\ \A t \in QThreads : qdone[t] \in 0..qprog[t].n
    /\ qspurious \in 0..MaxSpurious

\* What the threads do: thread t calls one operation of the queue qprog[t].n
\* times.  The threads are interchangeable, so the programs are listed up to
\* renaming of the threads.
QPrograms ==
    {p \in [QThreads -> [op : QueueOps, n : 1..MaxCalls]] :
        /\ p[1].n + p[2].n + p[3].n <= MaxCalls
        /\ \A t \in {1, 2} :
              \/ p[t].n > p[t + 1].n
              \/ p[t].n = p[t + 1].n /\ OpRank(p[t].op) <= OpRank(p[t + 1].op)}

\* QueueInner::new(capacity), followed by `pre` uncontended puts of the
\* elements 1..pre made before the threads start.
QueueInit ==
    /\ capacity \in 1..MaxCapacity
    /\ \E pre \in 0..MaxCapacity :
         /\ pre <= capacity
         /\ count = pre
         /\ nodes = [i \in 1..(pre + 1) |->
                       [next |-> IF i <= pre THEN i + 1 ELSE Null,
                        item |-> IF i = 1 THEN None ELSE i - 1,
                        freed |-> FALSE]]
         /\ head = 1
         /\ last = pre + 1
         /\ linked = [i \in 1..pre |-> i]
    /\ taken = <<>>
    /\ headLock = 0 /\ lastLock = 0
    /\ notEmpty = {} /\ notFull = {}
    /\ qprog \in QPrograms
    /\ qpc = [t \in QThreads |-> "idle"]
    /\ qdone = [t \in QThreads |-> 0]
    /\ qloc = [t \in QThreads |-> [cnt |-> 0, val |-> None, len |-> 0, waited |-> FALSE]]
    /\ qres = [t \in QThreads |-> <<>>]
    /\ qspurious = 0
    /\ FutureOff /\ ParkOff /\ PairOff /\ SeqOff /\ CombOff /\ TimedOff

QOp(t) == qprog[t].op
QCur(t) == Elem(t, qdone[t] + 1)
QGoto(t, p) == [qpc EXCEPT ![t] = p]

\* The call of thread t returns: Err(ret) / Ok(()) for offer and put,
\* Some(ret) / None for poll and take.
QReturn(t, ok, ret, n, w) ==
    /\ qres' = [qres EXCEPT ![t] =
                  Append(@, [op |-> QOp(t),
                             e |-> IF QOp(t) \in Enqueuers THEN QCur(t) ELSE None,
                             ok |-> ok, ret |-> ret, len |-> n, waited |-> w])]
    /\ qdone' = [qdone EXCEPT ![t] = @ + 1]
    /\ qpc' = QGoto(t, "idle")

\* QueueInner::offer / put / poll / take up to the call of offer_for_ms or
\* poll_for_ms: offer and poll first read len() without any lock.
QueueCall(t) ==
    /\ qpc[t] = "idle" /\ qdone[t] < qprog[t].n
    /\ qloc' = [qloc EXCEPT ![t] = [cnt |-> 0, val |-> None, len |-> count, waited |-> FALSE]]
    /\ CASE QOp(t) = "offer" ->
              IF Full(count)
              THEN QReturn(t, FALSE, QCur(t), count, FALSE)
              ELSE qpc' = QGoto(t, "lock_last") /\ UNCHANGED <<qres, qdone>>
         [] QOp(t) = "put" ->
              qpc' = QGoto(t, "lock_last") /\ UNCHANGED <<qres, qdone>>
         [] QOp(t) = "poll" ->
              IF count = 0
              THEN QReturn(t, FALSE, None, count, FALSE)
              ELSE qpc' = QGoto(t, "lock_head") /\ UNCHANGED <<qres, qdone>>
         [] QOp(t) = "take" ->
              qpc' = QGoto(t, "lock_head") /\ UNCHANGED <<qres, qdone>>
    /\ UNCHANGED <<qconf, count, qlist, headLock, lastLock, notEmpty, notFull, qlogs,
                   qspurious, QueueRest>>

\* offer_for_ms: let mut last = self.last.lock()
QLockLast(t) ==
    /\ qpc[t] = "lock_last"
    /\ lastLock = 0
    /\ lastLock' = t
    /\ qpc' = QGoto(t, "check_full")
    /\ UNCHANGED <<qconf, count, qlist, headLock, notEmpty, notFull, qdone, qloc, qlogs,
                   qres, qspurious, QueueRest>>

\* offer_for_ms: one test of `while self.len() == self.capacity`; dur is 0
\* for offer and u64::MAX for put.
QCheckFull(t) ==
    /\ qpc[t] = "check_full"
    /\ lastLock = t
    /\ IF Full(count)
       THEN IF Expired(QOp(t))
            THEN /\ lastLock' = 0
                 /\ QReturn(t, FALSE, QCur(t), count, qloc[t].waited)
                 /\ UNCHANGED <<notFull, qloc>>
            ELSE /\ lastLock' = 0
                 /\ notFull' = notFull \cup {t}
                 /\ qloc' = [qloc EXCEPT ![t].waited = TRUE, ![t].len = count]
                 /\ qpc' = QGoto(t, "wait_full")
                 /\ UNCHANGED <<qres, qdone>>
       ELSE /\ qpc' = QGoto(t, "enqueue")
            /\ qloc' = [qloc EXCEPT ![t].len = count]
            /\ UNCHANGED <<lastLock, notFull, qres, qdone>>
    /\ UNCHANGED <<qconf, count, qlist, headLock, notEmpty, qlogs, qspurious, QueueRest>>

\* Return from not_full.wait / not_empty.wait: the woken thread re-acquires
\* the mutex it waited with.
QWaitReturn(t) ==
    /\ \/ /\ qpc[t] = "wait_full" /\ t \notin notFull
          /\ lastLock = 0
          /\ lastLock' = t
          /\ qpc' = QGoto(t, "check_full")
          /\ UNCHANGED headLock
       \/ /\ qpc[t] = "wait_empty" /\ t \notin notEmpty
          /\ headLock = 0
          /\ headLock' = t
          /\ qpc' = QGoto(t, "check_empty")
          /\ UNCHANGED lastLock
    /\ UNCHANGED <<qconf, count, qlist, notEmpty, notFull, qdone, qloc, qlogs, qres,
                   qspurious, QueueRest>>

\* enqueue(Node::new(e), &mut last)
QEnqueue(t) ==
    /\ qpc[t] = "enqueue"
    /\ lastLock = t
    /\ IF nodes[last].freed
       THEN /\ qpc' = QGoto(t, "crashed")
            /\ UNCHANGED <<qlist, linked>>
       ELSE /\ nodes' = Append([nodes EXCEPT ![last].next = Len(nodes) + 1], Node(QCur(t)))
            /\ last' = Len(nodes) + 1
            /\ linked' = Append(linked, QCur(t))
            /\ qpc' = QGoto(t, "inc")
            /\ UNCHANGED head
    /\ UNCHANGED <<qconf, count, headLock, lastLock, notEmpty, notFull, qdone, qloc,
                   taken, qres, qspurious, QueueRest>>

\* Faulty variant of QCountInc: the increment of count is lost.
QCountIncLost(t) ==
    /\ qpc[t] = "inc"
    /\ lastLock = t
    /\ qloc' = [qloc EXCEPT ![t].cnt = count]
    /\ notFull' \in (IF count + 1 < capacity THEN NotifyOne(notFull) ELSE {notFull})
    /\ qpc' = QGoto(t, "unlock_last")
    /\ UNCHANGED <<qconf, count, qlist, headLock, lastLock, notEmpty, qdone, qlogs, qres,
                   qspurious, QueueRest>>

\* offer_for_ms: cnt = count.fetch_add(1); if cnt + 1 < capacity { not_full.notify_one() }
QCountInc(t) ==
    /\ qpc[t] = "inc"
    /\ lastLock = t
    /\ count' = count + 1
    /\ qloc' = [qloc EXCEPT ![t].cnt = count]
    /\ notFull' \in (IF count + 1 < capacity THEN NotifyOne(notFull) ELSE {notFull})
    /\ qpc' = QGoto(t, "unlock_last")
    /\ UNCHANGED <<qconf, qlist, headLock, lastLock, notEmpty, qdone, qlogs, qres,
                   qspurious, QueueRest>>

\* Faulty variant of QUnlockLast: the guard is not dropped before
\* notify_not_empty is called.
QUnlockLastKept(t) ==
    /\ qpc[t] = "unlock_last"
    /\ lastLock = t
    /\ qpc' = QGoto(t, "notify_not_empty")
    /\ UNCHANGED <<qconf, count, qlist, headLock, lastLock, notEmpty, notFull, qdone, qloc,
                   qlogs, qres, qspurious, QueueRest>>

\* offer_for_ms: drop(last)
QUnlockLast(t) ==
    /\ qpc[t] = "unlock_last"
    /\ lastLock = t
    /\ lastLock' = 0
    /\ qpc' = QGoto(t, "notify_not_empty")
    /\ UNCHANGED <<qconf, count, qlist, headLock, notEmpty, notFull, qdone, qloc, qlogs,
                   qres, qspurious, QueueRest>>

\* notify_not_empty: let _l = self.head.lock()
QNotifyNotEmptyLock(t) ==
    /\ qpc[t] = "notify_not_empty"
    /\ headLock = 0
    /\ headLock' = t
    /\ qpc' = QGoto(t, "signal_not_empty")
    /\ UNCHANGED <<qconf, count, qlist, lastLock, notEmpty, notFull, qdone, qloc, qlogs,
                   qres, qspurious, QueueRest>>

\* notify_not_empty: not_empty.notify_one(), the guard is dropped, and
\* offer_for_ms returns Ok(()).
QNotifyNotEmpty(t) ==
    /\ qpc[t] = "signal_not_empty"
    /\ headLock = t
    /\ notEmpty' \in NotifyOne(notEmpty)
    /\ headLock' = 0
    /\ QReturn(t, TRUE, None, qloc[t].len, qloc[t].waited)
    /\ UNCHANGED <<qconf, count, qlist, lastLock, notFull, qloc, qlogs, qspurious,
                   QueueRest>>

\* poll_for_ms: let mut head = self.head.lock()
QLockHead(t) ==
    /\ qpc[t] = "lock_head"
    /\ headLock = 0
    /\ headLock' = t
    /\ qpc' = QGoto(t, "check_empty")
    /\ UNCHANGED <<qconf, count, qlist, lastLock, notEmpty, notFull, qdone, qloc, qlogs,
                   qres, qspurious, QueueRest>>

\* Faulty variant of QCheckEmpty: the dequeuer goes on without looking at
\* the count.
QCheckEmptySkipped(t) ==
    /\ qpc[t] = "check_empty"
    /\ headLock = t
    /\ qpc' = QGoto(t, "dequeue")
    /\ qloc' = [qloc EXCEPT ![t].len = count]
    /\ UNCHANGED <<qconf, count, qlist, headLock, lastLock, notEmpty, notFull, qdone,
                   qlogs, qres, qspurious, QueueRest>>

\* poll_for_ms: one test of `while self.len() == 0`; dur is 0 for poll and
\* u64::MAX for take.
QCheckEmpty(t) ==
    /\ qpc[t] = "check_empty"
    /\ headLock = t
    /\ IF count = 0
       THEN IF Expired(QOp(t))
            THEN /\ headLock' = 0
                 /\ QReturn(t, FALSE, None, count, qloc[t].waited)
                 /\ UNCHANGED <<notEmpty, qloc>>
            ELSE /\ headLock' = 0
                 /\ notEmpty' = notEmpty \cup {t}
                 /\ qloc' = [qloc EXCEPT ![t].waited = TRUE, ![t].len = count]
                 /\ qpc' = QGoto(t, "wait_empty")
                 /\ UNCHANGED <<qres, qdone>>
       ELSE /\ qpc' = QGoto(t, "dequeue")
            /\ qloc' = [qloc EXCEPT ![t].len = count]
            /\ UNCHANGED <<headLock, notEmpty, qres, qdone>>
    /\ UNCHANGED <<qconf, count, qlist, lastLock, notFull, qlogs, qspurious, QueueRest>>

\* dequeue(&mut head): the old sentinel is freed, its successor becomes the
\* sentinel and gives up its item.
QDequeue(t) ==
    /\ qpc[t] = "dequeue"
    /\ headLock = t
    /\ LET h == head
           first == nodes[h].next
       IN IF nodes[h].freed \/ first = Null \/ nodes[first].freed
             \/ nodes[first].item = None
          THEN /\ qpc' = QGoto(t, "crashed")
               /\ UNCHANGED <<qlist, taken, qloc>>
          ELSE /\ head' = first
               /\ nodes' = [nodes EXCEPT ![h].freed = TRUE, ![first].item = None]
               /\ qloc' = [qloc EXCEPT ![t].val = nodes[first].item]
               /\ taken' = Append(taken, nodes[first].item)
               /\ qpc' = QGoto(t, "dec")
               /\ UNCHANGED last
    /\ UNCHANGED <<qconf, count, headLock, lastLock, notEmpty, notFull, qdone, linked,
                   qres, qspurious, QueueRest>>

\* poll_for_ms: cnt = count.fetch_sub(1); if cnt > 1 { not_empty.notify_one() }
QCountDec(t) ==
    /\ qpc[t] = "dec"
    /\ headLock = t
    /\ count' = count - 1
    /\ qloc' = [qloc EXCEPT ![t].cnt = count]
    /\ notEmpty' \in (IF count > 1 THEN NotifyOne(notEmpty) ELSE {notEmpty})
    /\ qpc' = QGoto(t, "unlock_head")
    /\ UNCHANGED <<qconf, qlist, headLock, lastLock, notFull, qdone, qlogs, qres,
                   qspurious, QueueRest>>

\* poll_for_ms: drop(head); if cnt == capacity { notify_not_full() }; Some(val)
QUnlockHead(t) ==
    /\ qpc[t] = "unlock_head"
    /\ headLock = t
    /\ headLock' = 0
    /\ IF WasFull(qloc[t].cnt)
       THEN /\ qpc' = QGoto(t, "notify_not_full")
            /\ UNCHANGED <<qres, qdone>>
       ELSE QReturn(t, TRUE, qloc[t].val, qloc[t].len, qloc[t].waited)
    /\ UNCHANGED <<qconf, count, qlist, lastLock, notEmpty, notFull, qloc, qlogs,
                   qspurious, QueueRest>>

\* notify_not_full: let _l = self.last.lock()
QNotifyNotFullLock(t) ==
    /\ qpc[t] = "notify_not_full"
    /\ lastLock = 0
    /\ lastLock' = t
    /\ qpc' = QGoto(t, "signal_not_full")
    /\ UNCHANGED <<qconf, count, qlist, headLock, notEmpty, notFull, qdone, qloc, qlogs,
                   qres, qspurious, QueueRest>>

\* notify_not_full: not_full.notify_one(), the guard is dropped, and
\* poll_for_ms returns Some(val).
QNotifyNotFull(t) ==
    /\ qpc[t] = "signal_not_full"
    /\ lastLock = t
    /\ notFull' \in NotifyOne(notFull)
    /\ lastLock' = 0
    /\ QReturn(t, TRUE, qloc[t].val, qloc[t].len, qloc[t].waited)
    /\ UNCHANGED <<qconf, count, qlist, headLock, notEmpty, qloc, qlogs, qspurious,
                   QueueRest>>

\* Condvar::wait may return without a notification.
QSpuriousWakeup(t) ==
    /\ qspurious < MaxSpurious
    /\ t \in notEmpty \cup notFull
    /\ notEmpty' = notEmpty \ {t}
    /\ notFull' = notFull \ {t}
    /\ qspurious' = qspurious + 1
    /\ UNCHANGED <<qconf, count, qlist, headLock, lastLock, qpc, qdone, qloc, qlogs,
                   qres, QueueRest>>

QStep(t) ==
    \/ QueueCall(t)
    \/ QLockLast(t)
    \/ QCheckFull(t)
    \/ QWaitReturn(t)
    \/ QEnqueue(t)
    \/ QCountInc(t)
    \/ QUnlockLast(t)
    \/ QNotifyNotEmptyLock(t)
    \/ QNotifyNotEmpty(t)
    \/ QLockHead(t)
    \/ QCheckEmpty(t)
    \/ QDequeue(t)
    \/ QCountDec(t)
    \/ QUnlockHead(t)
    \/ QNotifyNotFullLock(t)
    \/ QNotifyNotFull(t)

QueueNext ==
    \/ \E t \in QThreads : QStep(t)
    \/ \E t \in QThreads : QSpuriousWakeup(t)

QueueSpec == QueueInit /\ [][QueueNext]_vars

\* Every thread that can take a step eventually takes one.
QueueFairSpec == QueueSpec /\ \A t \in QThreads : WF_vars(QStep(t))

\* ------------------------------------------------- vocabulary of the claims
Distinct(q) == \A i, j \in 1..Len(q) : q[i] = q[j] => i = j
Range(q) == {q[i] : i \in 1..Len(q)}

\* The items reachable from the sentinel, in list order.
RECURSIVE Walk(_)
Walk(n) ==
    IF nodes[n].next = Null THEN <<>>
    ELSE <<nodes[nodes[n].next].item>> \o Walk(nodes[n].next)
QueueContents == Walk(head)

\* Results of the calls of thread t that have returned.
QResults(op) == {r \in UNION {Range(qres[t]) : t \in QThreads} : r.op = op}
\* Elements handed to callers by poll and take, as a set, and how many.
Dequeued == {r.ret : r \in {x \in QResults("poll") \cup QResults("take") : x.ok}}
InFlight == {qloc[t].val : t \in {u \in QThreads :
                 qpc[u] \in {"dec", "unlock_head", "notify_not_full", "signal_not_full"}}}

\* Thread t is blocked in put / take on the condition variable.
PutBlocked(t) == qpc[t] = "wait_full" /\ t \in notFull
TakeBlocked(t) == qpc[t] = "wait_empty" /\ t \in notEmpty

QNoCrash == \A t \in QThreads : qpc[t] # "crashed"

\* --------------------------------------------------------------------- C12
\* C12: the queue is FIFO: at every moment the elements linked so far, in the
\* order in which enqueue linked them under the last mutex, are the elements
\* dequeued so far, in dequeue order, followed by the elements still in the
\* list; no element is dequeued twice, and the elements handed to the callers
\* of poll and take are exactly the dequeued ones.
C12_Fifo ==
    /\ linked = taken \o QueueContents
    /\ Distinct(linked)
    /\ Dequeued \cup InFlight = Range(taken)
    /\ \A t, u \in QThreads : \A i \in 1..Len(qres[t]) : \A j \in 1..Len(qres[u]) :
          (/\ qres[t][i].op \in {"poll", "take"} /\ qres[t][i].ok
           /\ qres[u][j].op \in {"poll", "take"} /\ qres[u][j].ok
           /\ qres[t][i].ret = qres[u][j].ret) => (t = u /\ i = j)

\* Two elements enqueued concurrently by different threads have both been
\* handed out, in the order in which they were linked.
C12_Witness ==
    /\ Len(taken) >= 2
    /\ taken[1] >= 10 /\ taken[2] >= 10
    /\ taken[1] \div 10 # taken[2] \div 10
    /\ Cardinality(Dequeued) >= 2

\* --------------------------------------------------------------------- C13
\* C13: the element count never exceeds the capacity and never drops below 0.
C13_CountInBounds == 0 <= count /\ count <= capacity

\* The queue is full with a put blocked on it while a dequeuer is about to
\* decrement the count.
C13_Witness ==
    /\ count = capacity
    /\ \E t \in QThreads : PutBlocked(t)
    /\ \E t \in QThreads : qpc[t] = "dec"

\* --------------------------------------------------------------------- C14
\* The call of thread t returns a failure in this step.
QFails(t) ==
    /\ Len(qres'[t]) = Len(qres[t]) + 1
    /\ ~qres'[t][Len(qres'[t])].ok

\* C14: offer(e) on a full queue returns a failure that carries e back and
\* leaves the list and the count as they are; an offer never waits on
\* not_full; an offer that finds the queue not full links e.
C14_Offer ==
    /\ [](/\ \A t \in QThreads :
               QOp(t) = "offer" => (t \notin notFull /\ qpc[t] # "wait_full")
          /\ \A r \in QResults("offer") :
               /\ ~r.waited
               /\ r.ok => (r.len < capacity /\ r.e \in Range(linked))
               /\ ~r.ok => (r.len = capacity /\ r.ret = r.e /\ r.e \notin Range(linked)))
    /\ [][\A t \in QThreads :
            (QOp(t) = "offer" /\ QFails(t)) => UNCHANGED <<count, qlist, qlogs>>]_vars

\* One offer has failed on a full queue and another one has enqueued its element.
C14_Witness ==
    /\ \E r \in QResults("offer") : ~r.ok /\ r.len = capacity
    /\ \E r \in QResults("offer") : r.ok /\ r.e \in Range(QueueContents)

\* --------------------------------------------------------------------- C15
\* C15: a put on a full queue waits instead of failing, and no not_full
\* wake-up is lost: a put does not stay blocked forever while the queue has
\* room, however many putters are blocked; every put that returns has linked
\* its element.
C15_PutCompletes ==
    /\ \A t \in QThreads : []<>~(qpc[t] = "wait_full" /\ count < capacity)
    /\ [](\A r \in QResults("put") : r.ok /\ r.e \in Range(linked))

\* A queue of capacity 2 held 1, 2: an offer failed, a put blocked, a take
\* returned 1, the put went through, and the queue holds 2 and the new element.
C15_Witness ==
    /\ capacity = 2
    /\ \E r \in QResults("offer") : ~r.ok
    /\ taken = <<1>> /\ Dequeued = {1}
    /\ \E r \in QResults("put") : r.waited /\ r.ok /\ QueueContents = <<2, r.e>>

\* --------------------------------------------------------------------- C16
\* C16: a take on an empty queue waits instead of returning nothing, and no
\* not_empty wake-up is lost: a take does not stay blocked forever while the
\* queue holds an element; every take that returns hands out an element.
C16_TakeCompletes ==
    /\ \A t \in QThreads : []<>~(qpc[t] = "wait_empty" /\ count > 0)
    /\ [](\A r \in QResults("take") : r.ok /\ r.ret \in Range(taken))

\* Two takes blocked on the empty queue and both have returned an element.
C16_Witness ==
    \E t, u \in QThreads :
        /\ t # u
        /\ \E r \in Range(qres[t]) : r.op = "take" /\ r.waited /\ r.ok
        /\ \E r \in Range(qres[u]) : r.op = "take" /\ r.waited /\ r.ok

\* ==========================================================================
\* Park (src/src/sync/park.rs): thread parking over a pthread mutex, a
\* condition variable and a one-bit permit.  Only one thread parks.
\* ==========================================================================

\* ---------------------------------------------------------------- bounds
\* Largest number of park calls, and of unpark calls, in one run.
MaxParks == 2
MaxUnparks == 2

Parker == "cons"
Unparker == "prod"

ParkRest == <<fvars, qvars, prvars, sqvars, kvars, twvars>>

\* AtomicUint::compare_and_swap(old, new) on a cell holding cur: the value
\* the cell holds afterwards (the call returns cur).
\* Faulty variant of compare_and_swap: the cell is never written.
compare_and_swap_never(cur, old, new) == cur
compare_and_swap(cur, old, new) == IF cur = old THEN new ELSE cur

\* pthread_cond_signal on a condition variable with the waiters w.
\* Faulty variant of pthread_cond_signal: nobody is woken.
pthread_cond_signal_lost(w) == {w}
pthread_cond_signal(w) == Signal(w)

\* pthread_mutex_unlock by thread t.  The mutex is a default pthread mutex:
\* unlocking it without owning it is undefined; it is either released all
\* the same or left alone.
pthread_mutex_unlock(t) == IF pmutex = t THEN {NoThread} ELSE {pmutex, NoThread}

ParkTypeOK ==
    /\ permit \in {0, 1}
    /\ pmutex \in Threads \cup {NoThread}
    /\ pcond \subseteq Threads
    /\ Len(plog) <= nparks /\ nparks \in 0..MaxParks
    /\ unparked <= nunparks /\ nunparks \in 0..MaxUnparks
    /\ pspurious \in 0..MaxSpurious

\* Record of one park call: the path it returns by (via), whether it blocked
\* in the condition variable (slept), whether the caller owns the mutex when
\* it returns (held), the number of unpark calls that had returned and the
\* permit when it was entered (before, permit), and whether an unpark set the
\* permit while it was running (during).
NoCall == [via |-> "none", slept |-> FALSE, held |-> FALSE, before |-> 0,
           permit |-> 0, during |-> FALSE]

\* Park::new()
ParkNew ==
    /\ permit = 0
    /\ pmutex = NoThread
    /\ pcond = {}
    /\ ppc = [t \in Threads |-> "idle"]
    /\ pcur = NoCall
    /\ plog = <<>>
    /\ unparked = 0
    /\ pspurious = 0

\* Park::new(), and two threads about to call park and unpark some times.
ParkInit ==
    /\ ParkNew
    /\ nparks \in 1..MaxParks
    /\ nunparks \in 0..MaxUnparks
    /\ FutureOff /\ QueueOff /\ PairOff /\ SeqOff /\ CombOff /\ TimedOff

\* park_ms returns to its caller.
ParkReturn(t, c) ==
    /\ ppc' = [ppc EXCEPT ![t] = "idle"]
    /\ plog' = Append(plog, [c EXCEPT !.held = (pmutex' = t)])

\* park() = park_ms(0) is entered.
ParkEnter(t) ==
    /\ ppc' = [ppc EXCEPT ![t] = "cas1"]
    /\ pcur' = [NoCall EXCEPT !.before = unparked, !.permit = permit]

\* unpark() is entered.
UnparkEnter(t) == ppc' = [ppc EXCEPT ![t] = "swap"]

\* The parking thread calls park().
ParkCall(t) ==
    /\ t = Parker /\ nparks > 0
    /\ ppc[t] = "idle" /\ Len(plog) < nparks
    /\ ParkEnter(t)
    /\ UNCHANGED <<permit, pmutex, pcond, plog, unparked, nparks, nunparks, pspurious,
                   ParkRest>>

\* park_ms: old = state.compare_and_swap(1, 0); if old == 1 { return; }
ParkFastPath(t) ==
    /\ ppc[t] = "cas1"
    /\ permit' = compare_and_swap(permit, 1, 0)
    /\ UNCHANGED pmutex
    /\ IF permit = 1
       THEN /\ pcur' = [pcur EXCEPT !.via = "fast"]
            /\ ParkReturn(t, pcur')
       ELSE /\ ppc' = [ppc EXCEPT ![t] = "try_lock"]
            /\ UNCHANGED <<pcur, plog>>
    /\ UNCHANGED <<pcond, unparked, nparks, nunparks, pspurious, ParkRest>>

\* park_ms: match self.try_lock() { Ok(res) => if res { return; }, .. }
\* try_lock is Ok(true) when pthread_mutex_trylock returned 0, i.e. took the
\* mutex, and Ok(false) on EBUSY, also when the caller itself holds it.
ParkTryLock(t) ==
    /\ ppc[t] = "try_lock"
    /\ IF pmutex = NoThread
       THEN /\ pmutex' = t
            /\ pcur' = [pcur EXCEPT !.via = "try_lock"]
            /\ ParkReturn(t, pcur')
       ELSE /\ ppc' = [ppc EXCEPT ![t] = "cas2"]
            /\ UNCHANGED <<pmutex, pcur, plog>>
    /\ UNCHANGED <<permit, pcond, unparked, nparks, nunparks, pspurious, ParkRest>>

\* park_ms: old = state.compare_and_swap(1, 0); if old == 1 { unlock; return; }
ParkRecheck(t) ==
    /\ ppc[t] = "cas2"
    /\ permit' = compare_and_swap(permit, 1, 0)
    /\ IF permit = 1
       THEN /\ ppc' = [ppc EXCEPT ![t] = "unlock"]
            /\ pcur' = [pcur EXCEPT !.via = "recheck"]
       ELSE /\ ppc' = [ppc EXCEPT ![t] = "wait"]
            /\ UNCHANGED pcur
    /\ UNCHANGED <<pmutex, pcond, plog, unparked, nparks, nunparks, pspurious, ParkRest>>

\* park_ms: self.wait() = pthread_cond_wait(condvar, mutex).  Called by the
\* owner of the mutex it releases the mutex and blocks.  Called without
\* owning the mutex its behaviour is undefined: it either fails at once or
\* releases the mutex all the same and blocks.
ParkWait(t) ==
    /\ ppc[t] = "wait"
    /\ \/ /\ pmutex' = NoThread
          /\ pcond' = pcond \cup {t}
          /\ ppc' = [ppc EXCEPT ![t] = "waiting"]
          /\ pcur' = [pcur EXCEPT !.via = "wait", !.slept = TRUE]
       \/ /\ pmutex # t
          /\ ppc' = [ppc EXCEPT ![t] = "store"]
          /\ pcur' = [pcur EXCEPT !.via = "wait"]
          /\ UNCHANGED <<pmutex, pcond>>
    /\ UNCHANGED <<permit, plog, unparked, nparks, nunparks, pspurious, ParkRest>>

\* pthread_cond_wait returns: the woken thread has re-acquired the mutex.
ParkWaitReturn(t) ==
    /\ ppc[t] = "waiting" /\ t \notin pcond
    /\ pmutex = NoThread
    /\ pmutex' = t
    /\ ppc' = [ppc EXCEPT ![t] = "store"]
    /\ UNCHANGED <<permit, pcond, pcur, plog, unparked, nparks, nunparks, pspurious,
                   ParkRest>>

\* park_ms: self.state.store(0)
ParkStore(t) ==
    /\ ppc[t] = "store"
    /\ permit' = 0
    /\ ppc' = [ppc EXCEPT ![t] = "unlock"]
    /\ UNCHANGED <<pmutex, pcond, pcur, plog, unparked, nparks, nunparks, pspurious,
                   ParkRest>>

\* park_ms: self.unlock().unwrap() and return
ParkUnlock(t) ==
    /\ ppc[t] = "unlock"
    /\ pmutex' \in pthread_mutex_unlock(t)
    /\ ParkReturn(t, pcur)
    /\ UNCHANGED <<permit, pcond, pcur, unparked, nparks, nunparks, pspurious, ParkRest>>

\* The other thread calls unpark().
UnparkCall(t) ==
    /\ t = Unparker
    /\ ppc[t] = "idle" /\ unparked < nunparks
    /\ UnparkEnter(t)
    /\ UNCHANGED <<permit, pmutex, pcond, pcur, plog, unparked, nparks, nunparks,
                   pspurious, ParkRest>>

\* unpark: if self.state.swap(1) == 0 { .. }
UnparkSwap(t) ==
    /\ ppc[t] = "swap"
    /\ permit' = 1
    /\ pcur' = IF ppc[Parker] # "idle" THEN [pcur EXCEPT !.during = TRUE] ELSE pcur
    /\ IF permit = 0
       THEN /\ ppc' = [ppc EXCEPT ![t] = "lock"]
            /\ UNCHANGED unparked
       ELSE /\ ppc' = [ppc EXCEPT ![t] = "idle"]
            /\ unparked' = unparked + 1
    /\ UNCHANGED <<pmutex, pcond, plog, nparks, nunparks, pspurious, ParkRest>>

\* unpark: self.lock().unwrap()
UnparkLock(t) ==
    /\ ppc[t] = "lock"
    /\ pmutex = NoThread
    /\ pmutex' = t
    /\ ppc' = [ppc EXCEPT ![t] = "signal"]
    /\ UNCHANGED <<permit, pcond, pcur, plog, unparked, nparks, nunparks, pspurious,
                   ParkRest>>

\* unpark: let _ = self.signal()
UnparkSignal(t) ==
    /\ ppc[t] = "signal"
    /\ pcond' \in pthread_cond_signal(pcond)
    /\ ppc' = [ppc EXCEPT ![t] = "unpark_unlock"]
    /\ UNCHANGED <<permit, pmutex, pcur, plog, unparked, nparks, nunparks, pspurious,
                   ParkRest>>

\* unpark: self.unlock().unwrap() and return
UnparkUnlock(t) ==
    /\ ppc[t] = "unpark_unlock"
    /\ pmutex' \in pthread_mutex_unlock(t)
    /\ ppc' = [ppc EXCEPT ![t] = "idle"]
    /\ unparked' = unparked + 1
    /\ UNCHANGED <<permit, pcond, pcur, plog, nparks, nunparks, pspurious, ParkRest>>

\* pthread_cond_wait may return without a signal.
ParkSpuriousWakeup(t) ==
    /\ pspurious < MaxSpurious
    /\ t \in pcond
    /\ pcond' = pcond \ {t}
    /\ pspurious' = pspurious + 1
    /\ UNCHANGED <<permit, pmutex, ppc, pcur, plog, unparked, nparks, nunparks, ParkRest>>

\* One step of thread t inside park_ms or unpark.
ParkStep(t) ==
    \/ ParkFastPath(t)
    \/ ParkTryLock(t)
    \/ ParkRecheck(t)
    \/ ParkWait(t)
    \/ ParkWaitReturn(t)
    \/ ParkStore(t)
    \/ ParkUnlock(t)
    \/ UnparkSwap(t)
    \/ UnparkLock(t)
    \/ UnparkSignal(t)
    \/ UnparkUnlock(t)

ParkNext ==
    \/ \E t \in Threads : ParkCall(t) \/ UnparkCall(t) \/ ParkStep(t)
    \/ \E t \in Threads : ParkSpuriousWakeup(t)

ParkSpec == ParkInit /\ [][ParkNext]_vars

\* Both threads keep running while they can take a step.
ParkFairSpec ==
    ParkSpec /\ \A t \in Threads : WF_vars(ParkCall(t) \/ UnparkCall(t) \/ ParkStep(t))

\* ------------------------------------------------- vocabulary of the claims
ParkReturns == Range(plog)
\* The parking thread is blocked in the condition variable.
Parked == ppc[Parker] = "waiting" /\ Parker \in pcond

\* --------------------------------------------------------------------- C17
\* C17: an unpark always leaves the permit at 1; while no park call is in
\* progress the permit stays set; and a park call entered with the permit
\* set returns at its first step, without blocking, with the permit back at 0.
C17_PermitBanked ==
    /\ [][/\ (\E t \in Threads : ppc[t] = "swap" /\ ppc'[t] # "swap") => permit' = 1
          /\ (ppc[Parker] = "idle" /\ permit = 1) => permit' = 1
          /\ (ppc[Parker] = "cas1" /\ ppc'[Parker] # "cas1" /\ permit = 1) =>
                /\ ppc'[Parker] = "idle" /\ permit' = 0
                /\ plog'[Len(plog')].via = "fast" /\ ~plog'[Len(plog')].slept]_vars
    /\ [](\A e \in ParkReturns : e.permit = 1 => (e.via = "fast" /\ ~e.slept))

\* An unpark returned before park was called; that park returned by the fast
\* path and the permit is 0 again.
C17_Witness ==
    /\ permit = 0
    /\ \E e \in ParkReturns : e.before >= 1 /\ e.permit = 1 /\ e.via = "fast"

\* --------------------------------------------------------------------- C18
\* C18: no wake-up is lost: the parking thread is never left blocked in the
\* condition variable with the permit set once every unpark has returned.
C18_NoLostWakeup ==
    ~(Parked /\ permit = 1 /\ ppc[Unparker] = "idle" /\ unparked = nunparks)

\* --------------------------------------------------------------------- C19
\* C19: whenever park returns, the calling thread does not own the mutex.
C19_ReturnsUnlocked == \A e \in ParkReturns : ~e.held

\* ==========================================================================
\* pair() (src/src/future/pair.rs): a lock-free single-value future; the
\* consumer blocks in Core::take by parking, Core::complete unparks it.
\* ==========================================================================

\* mod state
STATE_MASK == 15
COMPLETE == 1
CANCELED == 2
CONSUMED == 3
WAIT_MASK == 240
SYNC == 16
\* Core::new: ref count 2, future state PENDING, no wait strategy (0x0200)
InitialState == 512
\* one reference: 1 << 8
OneRef == 256

\* state & STATE_MASK and state & WAIT_MASK
StateBits(st) == st % (STATE_MASK + 1)
WaitBits(st) == (st % (WAIT_MASK + STATE_MASK + 1)) - StateBits(st)

is_complete(st) == StateBits(st) = COMPLETE
\* Faulty variant of is_waiting: the wait strategy is never seen.
is_waiting_never(st) == FALSE
is_waiting(st) == WaitBits(st) > 0
as_consumed(st) == (st - StateBits(st)) + CONSUMED
is_wait_sync(st) == WaitBits(st) = SYNC
as_wait_sync(st) == (st - WaitBits(st)) + SYNC

PairRest == <<fvars, qvars, sqvars, kvars, twvars>>

\* release: (old >> 8) > 1, there are still outstanding references.
\* Faulty variant of outstanding: the last reference does not free the core.
outstanding_always(old) == TRUE
outstanding(old) == old \div OneRef > 1
pairParkIdle == <<permit, pmutex, pcond, plog, unparked, nparks, nunparks, pspurious>>

\* pair(), the consumer thread at position c and the producer thread at
\* position p of their use of the two handles.
PairStart(c, p) ==
    /\ pstate = InitialState
    /\ pvalue = NoVal
    /\ pfreed = FALSE
    /\ prpc = [t \in Threads |-> IF t = "cons" THEN c ELSE p]
    /\ prold = [t \in Threads |-> 0]
    /\ prgot = NoVal
    /\ prval \in Values
    /\ prwhen = "none"
    /\ prel = <<>>
    /\ ParkNew /\ nparks = 0 /\ nunparks = 0
    /\ FutureOff /\ QueueOff /\ SeqOff /\ CombOff /\ TimedOff

\* pair(), the consumer thread about to call take() on the PairedFuture and
\* the producer thread about to call complete(prval) on the Completer.
PairInit == PairStart("load", "write")

\* Core::take: old = self.state.load(Acquire), and the branch taken on it.
\* Also the return of park() into the loop.
PairTakeLoad(t) ==
    /\ \/ prpc[t] = "load"
       \/ prpc[t] = "parking" /\ ppc[t] = "idle"
    /\ prold' = [prold EXCEPT ![t] = pstate]
    /\ prpc' = [prpc EXCEPT ![t] =
                  IF is_complete(pstate) THEN "cas_consumed"
                  ELSE IF ~is_wait_sync(pstate) THEN "cas_wait" ELSE "park"]
    /\ UNCHANGED <<pstate, pvalue, pfreed, prgot, prval, prwhen, prel, pkvars, PairRest>>

\* Core::take: if old == state.compare_and_swap(old, as_consumed(old)) { break; }
PairTakeConsume(t) ==
    /\ prpc[t] = "cas_consumed"
    /\ pstate' = compare_and_swap(pstate, prold[t], as_consumed(prold[t]))
    /\ prpc' = [prpc EXCEPT ![t] = IF pstate = prold[t] THEN "move_val" ELSE "load"]
    /\ UNCHANGED <<pvalue, pfreed, prold, prgot, prval, prwhen, prel, pkvars, PairRest>>

\* Core::take: if old != state.compare_and_swap(old, as_wait_sync(old)) { continue; }
PairTakeSetWait(t) ==
    /\ prpc[t] = "cas_wait"
    /\ pstate' = compare_and_swap(pstate, prold[t], as_wait_sync(prold[t]))
    /\ prpc' = [prpc EXCEPT ![t] = IF pstate = prold[t] THEN "park" ELSE "load"]
    /\ UNCHANGED <<pvalue, pfreed, prold, prgot, prval, prwhen, prel, pkvars, PairRest>>

\* Core::take: self.parker().park()
PairTakePark(t) ==
    /\ prpc[t] = "park" /\ ppc[t] = "idle"
    /\ ParkEnter(t)
    /\ prpc' = [prpc EXCEPT ![t] = "parking"]
    /\ UNCHANGED <<pstate, pvalue, pfreed, prold, prgot, prval, prwhen, prel,
                   pairParkIdle, PairRest>>

\* Core::take: self.move_val(); PairedFuture::take returns the value.
PairMoveVal(t) ==
    /\ prpc[t] = "move_val"
    /\ prgot' \in (IF pvalue = NoVal \/ pfreed THEN Values ELSE {pvalue})
    /\ prpc' = [prpc EXCEPT ![t] = "release"]
    /\ UNCHANGED <<pstate, pvalue, pfreed, prold, prval, prwhen, prel, pkvars, PairRest>>

\* Core::complete: ptr::write(&mut self.value, value)
PairCompleteWrite(t) ==
    /\ prpc[t] = "write"
    /\ pvalue' = prval
    /\ prpc' = [prpc EXCEPT ![t] = "fetch_add"]
    /\ UNCHANGED <<pstate, pfreed, prold, prgot, prval, prwhen, prel, pkvars, PairRest>>

\* Core::complete: prev = state.fetch_add(1); if is_waiting(prev) { unpark() }
PairCompleteAdd(t) ==
    /\ prpc[t] = "fetch_add"
    /\ pstate' = pstate + 1
    /\ prwhen' = IF prpc["cons"] = "parking" THEN ppc["cons"] ELSE prpc["cons"]
    /\ IF is_waiting(pstate)
       THEN /\ UnparkEnter(t)
            /\ prpc' = [prpc EXCEPT ![t] = "unparking"]
       ELSE /\ prpc' = [prpc EXCEPT ![t] = "release"]
            /\ UNCHANGED ppc
    /\ UNCHANGED <<pvalue, pfreed, prold, prgot, prval, prel, pcur, pairParkIdle,
                   PairRest>>

\* Drop for PairedFuture / Completer at the end of take / complete:
\* release(core).  For the Completer also the return of unpark().
PairRelease(t) ==
    /\ \/ prpc[t] = "release"
       \/ prpc[t] = "unparking" /\ ppc[t] = "idle"
    /\ pstate' = pstate - OneRef
    /\ pfreed' = IF outstanding(pstate) THEN pfreed ELSE TRUE
    /\ prel' = Append(prel, [by |-> t, old |-> pstate,
                             freed |-> ~outstanding(pstate),
                             dropped |-> ~outstanding(pstate) /\ is_complete(pstate)])
    /\ prpc' = [prpc EXCEPT ![t] = "done"]
    /\ UNCHANGED <<pvalue, prold, prgot, prval, prwhen, pkvars, PairRest>>

\* Core::cancel: self.state.fetch_add(2, Relaxed)
PairCancel(t) ==
    /\ prpc[t] = "cancel"
    /\ pstate' = pstate + CANCELED
    /\ prpc' = [prpc EXCEPT ![t] = "release"]
    /\ UNCHANGED <<pvalue, pfreed, prold, prgot, prval, prwhen, prel, pkvars, PairRest>>

\* One step of thread t inside take or complete, park and unpark included.
PairStep(t) ==
    \/ PairTakeLoad(t)
    \/ PairTakeConsume(t)
    \/ PairTakeSetWait(t)
    \/ PairTakePark(t)
    \/ PairMoveVal(t)
    \/ PairCompleteWrite(t)
    \/ PairCompleteAdd(t)
    \/ PairRelease(t)
    \/ ParkStep(t)

PairNext ==
    \/ \E t \in Threads : PairStep(t)
    \/ \E t \in Threads : ParkSpuriousWakeup(t)

PairSpec == PairInit /\ [][PairNext]_vars

\* Both threads keep running while they can take a step.
PairFairSpec == PairSpec /\ \A t \in Threads : WF_vars(PairStep(t))

\* take has returned to the consumer.
TakeReturned == prpc["cons"] \in {"release", "done"}

\* --------------------------------------------------------------------- C20
\* C20: in every interleaving of take() and complete(v), take eventually
\* returns, and what it returns is v.
C20_TakeReturnsValue ==
    /\ <>TakeReturned
    /\ [](TakeReturned => prgot = prval)

\* complete published the value while the consumer was blocked in the
\* parker's condition variable; the consumer was woken and took the value.
C20_Witness ==
    /\ TakeReturned /\ prgot = prval
    /\ prwhen = "waiting"
    /\ \E e \in ParkReturns : e.slept /\ e.during

\* --------------------------------------------------------------------- C21
\* C21: complete never blocks: it is never left waiting for the parker's
\* mutex in unpark while the consumer, which owns that mutex, has returned
\* from take and dropped its handle (and so will never unlock it).
C21_CompleteNeverBlocks ==
    ~(/\ prpc["prod"] = "unparking" /\ ppc["prod"] = "lock"
      /\ pmutex = "cons" /\ prpc["cons"] = "done")

\* --------------------------------------------------------------------- C22
\* Every use of the two handles: the PairedFuture is taken from and dropped,
\* or just dropped; the Completer completes, cancels, or is just dropped.
ConsumerUses == {"load", "release"}
CompleterUses == {"write", "cancel", "release"}

PairUsesInit == \E c \in ConsumerUses, p \in CompleterUses : PairStart(c, p)

PairUsesNext ==
    \/ PairNext
    \/ \E t \in Threads : PairCancel(t)

PairUsesSpec == PairUsesInit /\ [][PairUsesNext]_vars

\* The number of deallocations of the core, and of destructions of its value
\* slot, made by release so far.
Frees == Cardinality({i \in 1..Len(prel) : prel[i].freed})
Drops == Cardinality({i \in 1..Len(prel) : prel[i].dropped})
HandleDropped(t) == prpc[t] = "done"

\* C22: the core starts with reference count 2 and is freed exactly once,
\* when and only when both handles have been dropped; the value slot is
\* destroyed exactly once: a completed value that was never taken is
\* destroyed when the core is freed, a value moved out by take is not
\* destroyed again, and a slot never written is not destroyed.
C22_FreedOnce ==
    /\ prel = <<>> => pstate \div OneRef = 2
    /\ Frees <= 1
    /\ Frees = 1 <=> (HandleDropped("cons") /\ HandleDropped("prod"))
    /\ pfreed <=> Frees = 1
    /\ Drops + (IF prgot # NoVal THEN 1 ELSE 0) <= 1
    /\ pfreed => (Drops = 1 <=> (is_complete(prel[Len(prel)].old) /\ prgot = NoVal))
    /\ Drops = 1 => pvalue # NoVal

\* The completer completed, the future was dropped without a take, and the
\* second release destroyed the value and freed the core.
C22_Witness ==
    /\ pfreed /\ Frees = 1 /\ Drops = 1
    /\ pvalue = prval /\ prgot = NoVal
    /\ Len(prel) = 2 /\ ~prel[1].freed

\* ==========================================================================
\* seq() (src/src/future/seq.rs): a stream with a one-value buffer; the core
\* (head, state, last_observed, condvar) sits behind a MutexCell and is
\* shared by a Seq (consumer) and a SeqProducer (producer).
\* ==========================================================================

\* ---------------------------------------------------------------- bounds
\* Largest number of operations the consumer performs on the stream.
MaxConsumerOps == 2
\* Largest number of SeqProducer.receive calls before send or drop.
MaxInterest == 2

SeqConsumerOps == {"receive", "take"}
SeqFinals == {"send", "drop"}

\* State<T>
SPending == [kind |-> "Pending", cb |-> 0]
SConsumerWait == [kind |-> "ConsumerWait", cb |-> 0]
SConsumerCb(k) == [kind |-> "ConsumerCb", cb |-> k]
SProducerCb(k) == [kind |-> "ProducerCb", cb |-> k]

\* State::is_callback
s_is_callback(st) == st.kind = "ConsumerCb"
\* Core::take_callback: the value returned, and the state left behind.
\* Faulty variant of take_callback: a stored callback is never found.
take_callback_none(st) == SPending
take_callback(st) == IF s_is_callback(st) THEN st ELSE SPending
after_take_callback(st) == IF s_is_callback(st) THEN SPending ELSE st

\* Core::consumer_state
consumer_state(st, h) ==
    CASE st.kind = "Pending" -> "Ready"
      [] st.kind \in {"ConsumerWait", "ConsumerCb"} -> "Waiting"
      [] st.kind \in {"ProducerWait", "ProducerCb"} -> IF h # NoVal THEN "Full" ELSE "Ready"

\* SeqProducer::receive: curr == l.last_observed
\* Faulty variant of is_last_observed: every observation counts as a change.
is_last_observed_never(curr, seen) == FALSE
is_last_observed(curr, seen) == curr = seen

\* Core::put: self.head.is_none()
\* Faulty variant of head_is_none: the head slot always counts as free.
head_is_none_always(h) == TRUE
head_is_none(h) == h = NoVal

SeqRest == <<fvars, qvars, pkvars, prvars, kvars, twvars>>
sprogram == <<cprog, pchain, pfinal, sval>>

\* A frame of a thread's stack: function, position, operation (or callback)
\* number, and the value the frame carries to a callback.
SFrame(f, p, i, v) == [fn |-> f, pc |-> p, i |-> i, v |-> v]
SRunning(t) == sstack[t] # <<>>
STop(t) == sstack[t][Len(sstack[t])]
SAt(t, f, p) == SRunning(t) /\ STop(t).fn = f /\ STop(t).pc = p
SGoto(t, p) == [sstack EXCEPT ![t] = SetTop(@, [STop(t) EXCEPT !.pc = p])]
SCall(t, p, fr) == [sstack EXCEPT ![t] = Append(SetTop(@, [STop(t) EXCEPT !.pc = p]), fr)]
SReturn(t) == [sstack EXCEPT ![t] = Pop(@)]

\* An invocation of a user callback by thread t from function f: the
\* consumer's k-th callback with Some((v, rest)), or the producer's k-th
\* callback with Some((state, producer)).
SInvoked(who, k, arg, t, f) ==
    [who |-> who, cb |-> k, arg |-> arg, by |-> f, held |-> (smutex = t)]

SeqTypeOK ==
    /\ smutex \in Threads \cup {NoThread}
    /\ shead \in Values \cup {NoVal}
    /\ sstate.kind \in {"Pending", "ConsumerWait", "ConsumerCb", "ProducerCb"}
    /\ slast \in {"Ready", "Waiting", "Full"}
    /\ swaiters \subseteq Threads
    /\ cidx \in 0..Len(cprog) /\ pidx \in 0..(pchain + 1)
    /\ sspurious \in 0..MaxSpurious

\* seq(), the Seq handed to thread "cons" and the SeqProducer to thread "prod".
SeqInit ==
    /\ smutex = NoThread
    /\ shead = NoVal
    /\ sstate = SPending
    /\ slast = "Full"
    /\ swaiters = {}
    /\ sstack = [t \in Threads |->
                   IF t = "cons" THEN <<SFrame("consumer", "call", 0, NoVal)>>
                   ELSE <<SFrame("producer", "call", 0, NoVal)>>]
    /\ cprog \in SeqsUpTo(SeqConsumerOps, MaxConsumerOps)
    /\ pchain \in 0..MaxInterest
    /\ pfinal \in SeqFinals
    /\ sval \in Values
    /\ cidx = 0 /\ pidx = 0
    /\ sinv = <<>> /\ sgot = <<>>
    /\ spanicked = [t \in Threads |-> FALSE]
    /\ sspurious = 0
    /\ FutureOff /\ QueueOff /\ ParkOff /\ PairOff /\ CombOff /\ TimedOff

\* The consumer's program: the thread body ("consumer"), or a consumer
\* callback ("ccb") holding the rest of the stream, performs the next
\* operation on the Seq.  After a take the same code goes on with the rest.
SeqConsumerRun(t) ==
    /\ SRunning(t) /\ STop(t).fn \in {"consumer", "ccb"} /\ STop(t).pc = "call"
    /\ IF cidx < Len(cprog)
       THEN /\ cidx' = cidx + 1
            /\ sstack' = IF cprog[cidx + 1] = "take"
                         THEN SCall(t, "call", SFrame("seq_take", "lock", cidx + 1, NoVal))
                         ELSE SCall(t, "ret", SFrame("seq_receive", "lock", cidx + 1, NoVal))
       ELSE /\ sstack' = SGoto(t, "ret")
            /\ UNCHANGED cidx
    /\ UNCHANGED <<smutex, shead, sstate, slast, swaiters, sprogram, pidx, sinv, sgot,
                   spanicked, sspurious, SeqRest>>

\* The producer's program: the thread body ("producer"), or a producer
\* callback ("pcb") holding the SeqProducer, performs the next operation.
SeqProducerRun(t) ==
    /\ SRunning(t) /\ STop(t).fn \in {"producer", "pcb"} /\ STop(t).pc = "call"
    /\ pidx <= pchain
    /\ pidx' = pidx + 1
    /\ sstack' = IF pidx < pchain
                 THEN SCall(t, "ret", SFrame("producer_receive", "lock", pidx + 1, NoVal))
                 ELSE IF pfinal = "send"
                 THEN SCall(t, "ret", SFrame("send", "lock", 0, sval))
                 ELSE SGoto(t, "ret")
    /\ UNCHANGED <<smutex, shead, sstate, slast, swaiters, sprogram, cidx, sinv, sgot,
                   spanicked, sspurious, SeqRest>>

\* self.core.lock()
SeqLock(t) ==
    /\ SRunning(t) /\ STop(t).pc = "lock"
    /\ smutex = NoThread
    /\ smutex' = t
    /\ sstack' = SGoto(t, "locked")
    /\ UNCHANGED <<shead, sstate, slast, swaiters, sprogram, cidx, pidx, sinv, sgot,
                   spanicked, sspurious, SeqRest>>

\* Seq::receive under the lock: take the head and leave the lock scope, or
\* store the callback and return.
SeqReceive(t) ==
    /\ SAt(t, "seq_receive", "locked")
    /\ smutex = t
    /\ smutex' = drop_guard(t)
    /\ IF shead # NoVal
       THEN /\ shead' = NoVal
            /\ sstack' = [sstack EXCEPT ![t] =
                            SetTop(@, SFrame("seq_receive", "invoke", STop(t).i, shead))]
            /\ UNCHANGED sstate
       ELSE /\ sstate' = SConsumerCb(STop(t).i)
            /\ sstack' = SReturn(t)
            /\ UNCHANGED shead
    /\ UNCHANGED <<slast, swaiters, sprogram, cidx, pidx, sinv, sgot, spanicked,
                   sspurious, SeqRest>>

\* The consumer's callback is invoked with Some((v, rest)): by Seq::receive
\* when the head was there, by SeqProducer::send when the callback was stored.
SeqInvokeConsumer(t) ==
    /\ SRunning(t) /\ STop(t).fn \in {"seq_receive", "send"} /\ STop(t).pc = "invoke"
    /\ sinv' = Append(sinv, SInvoked("consumer", STop(t).i, STop(t).v, t, STop(t).fn))
    /\ sstack' = SCall(t, "ret", SFrame("ccb", "call", STop(t).i, NoVal))
    /\ UNCHANGED <<smutex, shead, sstate, slast, swaiters, sprogram, cidx, pidx, sgot,
                   spanicked, sspurious, SeqRest>>

\* Seq::take under the lock: l.state = ConsumerWait
SeqTake(t) ==
    /\ SAt(t, "seq_take", "locked")
    /\ smutex = t
    /\ sstate' = SConsumerWait
    /\ sstack' = SGoto(t, "loop")
    /\ UNCHANGED <<smutex, shead, slast, swaiters, sprogram, cidx, pidx, sinv, sgot,
                   spanicked, sspurious, SeqRest>>

\* The loop of Seq::take: return the head if there is one, else wait.
SeqTakeLoop(t) ==
    /\ SAt(t, "seq_take", "loop")
    /\ smutex = t
    /\ smutex' = NoThread
    /\ IF shead # NoVal
       THEN /\ shead' = NoVal
            /\ sgot' = Append(sgot, shead)
            /\ sstack' = SReturn(t)
            /\ UNCHANGED swaiters
       ELSE /\ swaiters' = swaiters \cup {t}
            /\ sstack' = SGoto(t, "waiting")
            /\ UNCHANGED <<shead, sgot>>
    /\ UNCHANGED <<sstate, slast, sprogram, cidx, pidx, sinv, spanicked, sspurious,
                   SeqRest>>

\* l.wait(&l.condvar) returns with the mutex re-acquired.
SeqWaitReturn(t) ==
    /\ SAt(t, "seq_take", "waiting") /\ t \notin swaiters
    /\ smutex = NoThread
    /\ smutex' = t
    /\ sstack' = SGoto(t, "loop")
    /\ UNCHANGED <<shead, sstate, slast, swaiters, sprogram, cidx, pidx, sinv, sgot,
                   spanicked, sspurious, SeqRest>>

\* SeqProducer::send under the lock: hand the value to a stored consumer
\* callback (after dropping the guard), or put it and signal a blocked take.
SeqSend(t) ==
    /\ SAt(t, "send", "locked")
    /\ smutex = t
    /\ LET w == take_callback(sstate) IN
       IF w.kind = "ConsumerCb"
       THEN /\ sstate' = after_take_callback(sstate)
            /\ smutex' = drop_guard(t)
            /\ sstack' = [sstack EXCEPT ![t] =
                            SetTop(@, SFrame("send", "invoke", w.cb, STop(t).v))]
            /\ UNCHANGED <<shead, swaiters, spanicked>>
       ELSE IF ~head_is_none(shead)
       THEN \* put: assert!(self.head.is_none(), "stream not ready for next value")
            /\ smutex' = NoThread
            /\ sstack' = [sstack EXCEPT ![t] = <<>>]
            /\ spanicked' = [spanicked EXCEPT ![t] = TRUE]
            /\ UNCHANGED <<shead, sstate, swaiters>>
       ELSE /\ shead' = STop(t).v
            /\ swaiters' \in (IF sstate.kind = "ConsumerWait" THEN Signal(swaiters)
                              ELSE {swaiters})
            /\ smutex' = NoThread
            /\ sstack' = SReturn(t)
            /\ UNCHANGED <<sstate, spanicked>>
    /\ UNCHANGED <<slast, sprogram, cidx, pidx, sinv, sgot, sspurious, SeqRest>>

\* SeqProducer::receive under the lock: store the callback when the consumer
\* state is the one last observed, else record it and leave the lock scope.
SeqProducerReceive(t) ==
    /\ SAt(t, "producer_receive", "locked")
    /\ smutex = t
    /\ smutex' = drop_guard(t)
    /\ LET curr == consumer_state(sstate, shead) IN
       IF is_last_observed(curr, slast)
       THEN /\ sstate' = SProducerCb(STop(t).i)
            /\ sstack' = SReturn(t)
            /\ UNCHANGED slast
       ELSE /\ slast' = curr
            /\ sstack' = [sstack EXCEPT ![t] =
                            SetTop(@, SFrame("producer_receive", "invoke", STop(t).i, curr))]
            /\ UNCHANGED sstate
    /\ UNCHANGED <<shead, swaiters, sprogram, cidx, pidx, sinv, sgot, spanicked,
                   sspurious, SeqRest>>

\* SeqProducer::receive: cb(Some((curr, self)))
SeqInvokeProducer(t) ==
    /\ SAt(t, "producer_receive", "invoke")
    /\ sinv' = Append(sinv, SInvoked("producer", STop(t).i, STop(t).v, t, STop(t).fn))
    /\ sstack' = SCall(t, "ret", SFrame("pcb", "call", STop(t).i, NoVal))
    /\ UNCHANGED <<smutex, shead, sstate, slast, swaiters, sprogram, cidx, pidx, sgot,
                   spanicked, sspurious, SeqRest>>

\* A function or callback returns to its caller.
SeqRet(t) ==
    /\ SRunning(t) /\ STop(t).pc = "ret"
    /\ sstack' = SReturn(t)
    /\ UNCHANGED <<smutex, shead, sstate, slast, swaiters, sprogram, cidx, pidx, sinv,
                   sgot, spanicked, sspurious, SeqRest>>

\* The condition variable may wake a blocked take without a signal.
SeqSpuriousWakeup(t) ==
    /\ sspurious < MaxSpurious
    /\ t \in swaiters
    /\ swaiters' = swaiters \ {t}
    /\ sspurious' = sspurious + 1
    /\ UNCHANGED <<smutex, shead, sstate, slast, sstack, sprogram, cidx, pidx, sinv,
                   sgot, spanicked, SeqRest>>

SeqStep(t) ==
    \/ SeqConsumerRun(t)
    \/ SeqProducerRun(t)
    \/ SeqLock(t)
    \/ SeqReceive(t)
    \/ SeqInvokeConsumer(t)
    \/ SeqTake(t)
    \/ SeqTakeLoop(t)
    \/ SeqWaitReturn(t)
    \/ SeqSend(t)
    \/ SeqProducerReceive(t)
    \/ SeqInvokeProducer(t)
    \/ SeqRet(t)

SeqNext ==
    \/ \E t \in Threads : SeqStep(t)
    \/ \E t \in Threads : SeqSpuriousWakeup(t)

SeqSpec == SeqInit /\ [][SeqNext]_vars

\* Both threads keep running while they can take a step.
SeqFairSpec == SeqSpec /\ \A t \in Threads : WF_vars(SeqStep(t))

\* ------------------------------------------------- vocabulary of the claims
\* The invocations of the consumer's callbacks, and of the producer's.
ConsumerCalls == {i \in 1..Len(sinv) : sinv[i].who = "consumer"}
ProducerCalls == {i \in 1..Len(sinv) : sinv[i].who = "producer"}
\* How many times the consumer obtained an element of the stream.
SeqObtained == Cardinality(ConsumerCalls) + Len(sgot)

\* --------------------------------------------------------------------- C23
\* C23: one send(v) against one consumer operation (receive or take) on a
\* fresh stream: in every interleaving the consumer obtains v exactly once
\* (its callback is invoked once with v, or take returns v) and finishes.
OneSendOneOp == Len(cprog) = 1 /\ pchain = 0 /\ pfinal = "send"

C23_SendMeetsConsumer ==
    /\ [](OneSendOneOp =>
            /\ SeqObtained <= 1
            /\ \A i \in ConsumerCalls : sinv[i].arg = sval
            /\ \A i \in 1..Len(sgot) : sgot[i] = sval)
    /\ OneSendOneOp ~> (SeqObtained = 1 /\ ~SRunning("cons") /\ ~SRunning("prod"))

\* One take against one send: take has returned the value sent and both
\* threads have finished.
C23_Witness ==
    /\ OneSendOneOp /\ cprog = <<"take">>
    /\ sgot = <<sval>> /\ sstate = SConsumerWait
    /\ ~SRunning("cons") /\ ~SRunning("prod")

\* The producer's program has run to its end: send has returned (send
\* consumes the SeqProducer) or the SeqProducer was dropped unused.
ProducerEnded == ~SRunning("prod") /\ pidx = pchain + 1
\* The consumer is left with a stored callback, or blocked in take.
ConsumerLeftPending == sstate.kind = "ConsumerCb" \/ swaiters # {}

\* --------------------------------------------------------------------- C24
\* C24: the consumer, iterating over the stream, observes the elements sent
\* in order, none twice and none lost, and then the end of the stream: once
\* the producer has sent its element and is gone, the consumer is not left
\* with a stored callback or blocked in take.
C24_OrderedThenEnd ==
    /\ SeqObtained <= 1
    /\ \A i \in ConsumerCalls : sinv[i].arg = sval
    /\ \A i \in 1..Len(sgot) : sgot[i] = sval
    /\ (pfinal = "send" /\ ProducerEnded /\ SeqObtained = 1) => ~ConsumerLeftPending

\* --------------------------------------------------------------------- C25
\* C25: dropping the SeqProducer ends the stream: once it has been dropped,
\* no consumer callback stays stored (it was invoked with None) and no
\* consumer stays blocked in take (it returned None).
C25_DropEndsStream ==
    (pfinal = "drop" /\ ProducerEnded) => ~ConsumerLeftPending

\* --------------------------------------------------------------------- C26
\* The producer callback invoked before the i-th invocation, 0 if none.
PrevProducerCall(i) ==
    IF \E j \in ProducerCalls : j < i
    THEN CHOOSE j \in ProducerCalls : j < i /\ \A k \in ProducerCalls : k < i => k <= j
    ELSE 0

\* C26: SeqProducer.receive(cb) fires only on a change.  When the current
\* consumer state differs from last_observed the call goes on to invoke cb
\* with that state and last_observed becomes that state; when it is equal the
\* call stores cb and returns without invoking it.  last_observed starts as
\* Full, so the states handed to the producer never repeat back to back and
\* the first of them is not Full.
C26_FiresOnChange ==
    /\ [](\A i \in ProducerCalls :
            sinv[i].arg # (IF PrevProducerCall(i) = 0 THEN "Full"
                           ELSE sinv[PrevProducerCall(i)].arg))
    /\ [][\A t \in Threads :
            (SAt(t, "producer_receive", "locked") /\ smutex = t /\ smutex' # t) =>
               LET curr == consumer_state(sstate, shead)
                   now == sstack'[t]
               IN  IF curr # slast
                   THEN /\ slast' = curr /\ sstate' = sstate
                        /\ Len(now) = Len(sstack[t])
                        /\ now[Len(now)].fn = "producer_receive"
                        /\ now[Len(now)].pc = "invoke"
                        /\ now[Len(now)].i = STop(t).i
                        /\ now[Len(now)].v = curr
                   ELSE /\ slast' = slast /\ sstate' = SProducerCb(STop(t).i)
                        /\ Len(now) = Len(sstack[t]) - 1
                        /\ sinv' = sinv]_vars

\* One producer callback was invoked with the consumer state, and a later
\* SeqProducer.receive found the state unchanged and stored its callback.
C26_Witness ==
    /\ ProducerCalls # {}
    /\ sstate.kind = "ProducerCb" /\ sstate.cb > 1
    /\ \A t \in Threads : ~SRunning(t)

\* --------------------------------------------------------------------- C27
\* The k-th SeqProducer.receive has returned after storing its callback: the
\* producer's chain stopped at k and callback k has not been invoked.
StoredUninvoked(k) ==
    /\ pidx = k /\ ~SRunning("prod")
    /\ \A i \in ProducerCalls : sinv[i].cb # k

\* C27: a producer-interest callback stored by SeqProducer.receive is never
\* discarded uninvoked: until it is invoked it stays stored in the core.
C27_StoredCallbackKept ==
    \A k \in 1..pchain : StoredUninvoked(k) => sstate = SProducerCb(k)

\* ==========================================================================
\* The two mutex-based cores side by side: a run is a run of the future of
\* val.rs or a run of the stream of seq.rs.
\* ==========================================================================
CoresInit == Init \/ SeqInit
CoresNext == Next \/ SeqNext
CoresSpec == CoresInit /\ [][CoresNext]_vars

\* --------------------------------------------------------------------- C11
\* C11: no user callback is invoked while the invoking thread holds the
\* core's mutex: not the consumer's callback (receive, complete), not a
\* producer-interest callback (completer_receive, notify_completer), not a
\* callback of the stream (Seq::receive, SeqProducer::send,
\* SeqProducer::receive).
C11_CallbacksOutsideLock ==
    /\ \A t \in Threads :
          /\ (Running(t) /\ Top(t).pc = "invoke") => mutex # t
          /\ At(t, "cb", "call") => mutex # t
          /\ (SRunning(t) /\ STop(t).pc = "invoke") => smutex # t
    /\ \A i \in 1..Len(sinv) : ~sinv[i].held

\* The stream's producer callback has run, and send has then invoked the
\* consumer's stored callback with the value.
C11_Witness ==
    /\ \E i \in 1..Len(sinv) : sinv[i].who = "producer"
    /\ \E i \in 1..Len(sinv) :
          sinv[i].who = "consumer" /\ sinv[i].by = "send" /\ sinv[i].arg = sval

\* ==========================================================================
\* Combinators (src/src/future/future.rs): map builds a new future over a
\* source future.  Every future is a core of val.rs; a locked section of
\* val.rs is one step, and callbacks run outside of it on the stack of the
\* thread that triggers them.  Core 1 and core 2 are sources, core 3 is the
\* future the combinator returns.
\* ==========================================================================
CombRest == <<fvars, qvars, pkvars, prvars, sqvars, twvars>>

Source1 == "f1"
Source2 == "f2"
Terminal == "ret"
NoCore == "none"
Cores == {Source1, Source2, Terminal}

\* FutureResult<T> = Result<T, FutureError>, FutureError { kind, desc }.
\* A value is a tuple, so that a join can hand out the tuple of its sources.
NoResult == [ok |-> FALSE, v |-> <<>>, kind |-> "None", desc |-> ""]
Ok(v) == [ok |-> TRUE, v |-> v, kind |-> "None", desc |-> ""]
Err(k, d) == [ok |-> FALSE, v |-> <<>>, kind |-> k, desc |-> d]
FutureErrorKind == {"ExecutionError", "CancelationError"}
OkResults == {Ok(<<v>>) : v \in Values}
ErrResults == {Err(k, d) : k \in FutureErrorKind, d \in Descs}

\* The function handed to map.
MapFn(v) == <<v[1] + 10>>

\* A closure: its code and the cores it captured.
Closure(n, a, b) == [name |-> n, a |-> a, b |-> b]
NoClosure == Closure("none", NoCore, NoCore)

\* Completion<T> of a core, the callback being a closure.
KPending == [kind |-> "Pending", strat |-> "None", cb |-> NoClosure]
KConsumerWait(s, k) == [kind |-> "ConsumerWait", strat |-> s, cb |-> k]
KCompleterWait(s, k) == [kind |-> "CompleterWait", strat |-> s, cb |-> k]

\* Core::new()
NewCore == [val |-> NoResult, completion |-> KPending]

KFrame(f, p, c, k, r) == [fn |-> f, pc |-> p, c |-> c, cb |-> k, arg |-> r, i |-> 0]
KRunning(t) == kstack[t] # <<>>
KTop(t) == kstack[t][Len(kstack[t])]
KAt(t, f, p) == KRunning(t) /\ KTop(t).fn = f /\ KTop(t).pc = p
KSet(t, fr) == [kstack EXCEPT ![t] = SetTop(@, fr)]
KGoto(t, p) == KSet(t, [KTop(t) EXCEPT !.pc = p])
KCall(t, p, fr) == [kstack EXCEPT ![t] = Append(SetTop(@, [KTop(t) EXCEPT !.pc = p]), fr)]
KReturn(t) == [kstack EXCEPT ![t] = Pop(@)]
KEvent(e, c, r) == [ev |-> e, c |-> c, r |-> r]
KInvokeFrame(k, r) == KFrame("closure", k.name, NoCore, k, r)

\* A source's producer completes at once ("eager"), or registers its
\* interest callback first and completes from inside it ("lazy").
SourceStyles == {"eager", "lazy"}
KConsumerOps == {"none", "receive", "take"}

\* The state after the handles were created: thread "cons" is about to build
\* the combinator and use the future it returns, thread "prod" owns the
\* sources' Completers.
CombStart(comb, srcs, orders) ==
    /\ kcore = [c \in Cores |-> NewCore]
    /\ kstack = [t \in Threads |->
                   IF t = "cons" THEN <<KFrame("main", "build", Terminal, NoClosure, NoResult)>>
                   ELSE <<KFrame("producers", "next", NoCore, NoClosure, NoResult)>>]
    /\ klog = <<>>
    /\ kplan \in [comb : {comb}, consumer : KConsumerOps, src : srcs, order : orders]
    /\ kjoin = [c \in {Source1, Source2} |-> <<>>]
    /\ kpanicked = {}
    /\ FutureOff /\ QueueOff /\ ParkOff /\ PairOff /\ SeqOff /\ TimedOff

MapInit ==
    CombStart("map",
              [{Source1} -> [style : SourceStyles, result : OkResults \cup ErrResults]],
              {<<Source1>>})

\* Future::map: let (ret, producer) = val::future(); producer.receive(..); ret
KMap(t) ==
    /\ KAt(t, "main", "build") /\ kplan.comb = "map"
    /\ klog' = Append(klog, KEvent("build", Terminal, NoResult))
    /\ kstack' = KCall(t, "consume",
                       KFrame("completer_receive", "lock", Terminal,
                              Closure("map_interest", Source1, Terminal), NoResult))
    /\ UNCHANGED <<kcore, kplan, kjoin, kpanicked, CombRest>>

\* The consumer uses the future the combinator returned: it calls receive, or
\* take, or just keeps it.
KConsume(t) ==
    /\ KAt(t, "main", "consume")
    /\ IF kplan.consumer = "none"
       THEN /\ kstack' = KGoto(t, "ret")
            /\ UNCHANGED klog
       ELSE /\ klog' = Append(klog, KEvent("consume", Terminal, NoResult))
            /\ kstack' = KCall(t, "ret",
                               KFrame(kplan.consumer, "notify", Terminal,
                                      Closure("user", NoCore, NoCore), NoResult))
    /\ UNCHANGED <<kcore, kplan, kjoin, kpanicked, CombRest>>

\* The producers of the sources, in the order of the plan.
KProduce(t) ==
    /\ KAt(t, "producers", "next")
    /\ LET n == KTop(t).i IN
       IF n < Len(kplan.order)
       THEN LET c == kplan.order[n + 1]
                src == kplan.src[c]
                me == [KTop(t) EXCEPT !.i = n + 1]
            IN  kstack' = [kstack EXCEPT ![t] =
                   Append(SetTop(@, me),
                          IF src.style = "lazy"
                          THEN KFrame("completer_receive", "lock", c,
                                      Closure("lazy_producer", c, NoCore), NoResult)
                          ELSE KFrame("complete", "lock", c, NoClosure, src.result))]
       ELSE kstack' = KGoto(t, "ret")
    /\ UNCHANGED <<kcore, klog, kplan, kjoin, kpanicked, CombRest>>

\* FutureImpl::completer_receive
KCompleterReceive(t) ==
    /\ KAt(t, "completer_receive", "lock")
    /\ LET c == KTop(t).c IN
       IF is_pending(kcore[c].completion)
       THEN /\ kcore' = [kcore EXCEPT ![c].completion =
                           KCompleterWait("Callback", KTop(t).cb)]
            /\ kstack' = KReturn(t)
       ELSE /\ kstack' = KGoto(t, "invoke")
            /\ UNCHANGED kcore
    /\ UNCHANGED <<klog, kplan, kjoin, kpanicked, CombRest>>

\* notify_completer, one turn of its loop with a callback: the callback is
\* taken out and invoked outside the lock, then the loop goes on.
KNotify(t, c) ==
    /\ kcore' = [kcore EXCEPT ![c].completion = KPending]
    /\ kstack' = IF kcore[c].completion.strat = "Callback"
                 THEN KCall(t, "notify", KInvokeFrame(kcore[c].completion.cb, NoResult))
                 ELSE kstack

\* FutureImpl::receive
KReceive(t) ==
    /\ KAt(t, "receive", "notify")
    /\ LET c == KTop(t).c IN
       IF is_completer_wait(kcore[c].completion)
       THEN KNotify(t, c)
       ELSE IF kcore[c].val # NoResult
       THEN /\ kcore' = [kcore EXCEPT ![c].val = NoResult]
            /\ kstack' = KSet(t, [KTop(t) EXCEPT !.pc = "invoke", !.arg = kcore[c].val])
       ELSE /\ kcore' = [kcore EXCEPT ![c].completion =
                           KConsumerWait("Callback", KTop(t).cb)]
            /\ kstack' = KReturn(t)
    /\ UNCHANGED <<klog, kplan, kjoin, kpanicked, CombRest>>

\* FutureImpl::take up to the loop
KTake(t) ==
    /\ KAt(t, "take", "notify")
    /\ LET c == KTop(t).c IN
       IF is_completer_wait(kcore[c].completion)
       THEN KNotify(t, c)
       ELSE /\ kcore' = [kcore EXCEPT ![c].completion = KConsumerWait("Sync", NoClosure)]
            /\ kstack' = KGoto(t, "wait")
    /\ UNCHANGED <<klog, kplan, kjoin, kpanicked, CombRest>>

\* FutureImpl::take, the loop: it returns once the value is there.
KTakeValue(t) ==
    /\ KAt(t, "take", "wait")
    /\ LET c == KTop(t).c IN
       /\ kcore[c].val # NoResult
       /\ kcore' = [kcore EXCEPT ![c].val = NoResult]
       /\ klog' = Append(klog, KEvent("delivered", c, kcore[c].val))
    /\ kstack' = KReturn(t)
    /\ UNCHANGED <<kplan, kjoin, kpanicked, CombRest>>

\* FutureImpl::complete.  A source that resolves to an error is a source
\* whose FutureResult is an Err.
KComplete(t) ==
    /\ KAt(t, "complete", "lock")
    /\ LET c == KTop(t).c
           w == kcore[c].completion
       IN  IF is_consumer_wait(w) /\ w.strat = "Callback"
           THEN /\ kcore' = [kcore EXCEPT ![c].completion = KPending]
                /\ kstack' = KSet(t, [KTop(t) EXCEPT !.pc = "invoke", !.cb = w.cb])
                /\ UNCHANGED kpanicked
           ELSE IF kcore[c].val # NoResult
           THEN \* put: assert!(self.val.is_none(), "future already completed")
                /\ kstack' = [kstack EXCEPT ![t] = <<>>]
                /\ kpanicked' = kpanicked \cup {t}
                /\ UNCHANGED kcore
           ELSE /\ kcore' = [kcore EXCEPT
                               ![c].val = KTop(t).arg,
                               ![c].completion = IF is_consumer_wait(w) THEN KPending ELSE w]
                /\ kstack' = KReturn(t)
                /\ UNCHANGED kpanicked
    /\ klog' = Append(klog, KEvent("complete", KTop(t).c, KTop(t).arg))
    /\ UNCHANGED <<kplan, kjoin, CombRest>>

\* FutureImpl::fail: unimplemented!()
KFail(t) ==
    /\ KAt(t, "fail", "lock")
    /\ kstack' = [kstack EXCEPT ![t] = <<>>]
    /\ kpanicked' = kpanicked \cup {t}
    /\ UNCHANGED <<kcore, klog, kplan, kjoin, CombRest>>

\* cb(val) / cb.call_once((val,)) / cb(Completer::new(self)), outside the lock
KInvoke(t) ==
    /\ KRunning(t) /\ KTop(t).pc = "invoke"
    /\ kstack' = KCall(t, "ret", KInvokeFrame(KTop(t).cb, KTop(t).arg))
    /\ UNCHANGED <<kcore, klog, kplan, kjoin, kpanicked, CombRest>>

\* The consumer's callback: it records what it was handed.
KUserCallback(t) ==
    /\ KAt(t, "closure", "user")
    /\ klog' = Append(klog, KEvent("delivered", Terminal, KTop(t).arg))
    /\ kstack' = KGoto(t, "ret")
    /\ UNCHANGED <<kcore, kplan, kjoin, kpanicked, CombRest>>

\* The interest callback of a source's producer: it completes the source.
KLazyProducer(t) ==
    /\ KAt(t, "closure", "lazy_producer")
    /\ LET c == KTop(t).cb.a IN
       /\ klog' = Append(klog, KEvent("interest", c, NoResult))
       /\ kstack' = KCall(t, "ret",
                          KFrame("complete", "lock", c, NoClosure, kplan.src[c].result))
    /\ UNCHANGED <<kcore, kplan, kjoin, kpanicked, CombRest>>

\* Future::map, the closure handed to producer.receive:
\* if let Ok(p) = p { self.receive(..) }
KMapInterest(t) ==
    /\ KAt(t, "closure", "map_interest")
    /\ LET k == KTop(t).cb IN
       /\ klog' = Append(klog, KEvent("subscribe", k.a, NoResult))
       /\ kstack' = KCall(t, "ret",
                          KFrame("receive", "notify", k.a, Closure("map_value", k.b, NoCore),
                                 NoResult))
    /\ UNCHANGED <<kcore, kplan, kjoin, kpanicked, CombRest>>

\* Future::map, the closure handed to self.receive:
\* match val { Ok(v) => p.complete(f(v)), Err(e) => p.fail(e.desc) }
KMapValue(t) ==
    /\ KAt(t, "closure", "map_value")
    /\ LET k == KTop(t).cb
           r == KTop(t).arg
       IN  IF r.ok
           THEN /\ klog' = Append(klog, KEvent("f", k.a, r))
                /\ kstack' = KCall(t, "ret",
                                   KFrame("complete", "lock", k.a, NoClosure, Ok(MapFn(r.v))))
           ELSE /\ kstack' = KCall(t, "ret",
                                   KFrame("fail", "lock", k.a, NoClosure,
                                          [NoResult EXCEPT !.desc = r.desc]))
                /\ UNCHANGED klog
    /\ UNCHANGED <<kcore, kplan, kjoin, kpanicked, CombRest>>

\* A function or closure returns to its caller.
KRet(t) ==
    /\ KRunning(t) /\ KTop(t).pc = "ret"
    /\ kstack' = KReturn(t)
    /\ UNCHANGED <<kcore, klog, kplan, kjoin, kpanicked, CombRest>>

\* One step of thread t in the code of val.rs or in the callers' code.
KStep(t) ==
    \/ KConsume(t)
    \/ KProduce(t)
    \/ KCompleterReceive(t)
    \/ KReceive(t)
    \/ KTake(t)
    \/ KTakeValue(t)
    \/ KComplete(t)
    \/ KInvoke(t)
    \/ KUserCallback(t)
    \/ KLazyProducer(t)
    \/ KRet(t)

MapStep(t) ==
    \/ KStep(t)
    \/ KMap(t)
    \/ KMapInterest(t)
    \/ KMapValue(t)
    \/ KFail(t)

MapNext == \E t \in Threads : MapStep(t)

MapSpec == MapInit /\ [][MapNext]_vars

\* --------------------------------------------------------------------------
\* join((f1, f2)): the returned future completes with the tuple of the
\* sources' values once both have completed, and subscribes to its sources
\* only when its own consumer shows interest.
\* --------------------------------------------------------------------------
JoinInit ==
    CombStart("join",
              [{Source1, Source2} -> [style : SourceStyles, result : OkResults]],
              {<<Source1, Source2>>, <<Source2, Source1>>})

\* join: a new future whose producer waits for the consumer's interest.
KJoin(t) ==
    /\ KAt(t, "main", "build") /\ kplan.comb = "join"
    /\ klog' = Append(klog, KEvent("build", Terminal, NoResult))
    /\ kstack' = KCall(t, "consume",
                       KFrame("completer_receive", "lock", Terminal,
                              Closure("join_interest", Source1, Source2), NoResult))
    /\ UNCHANGED <<kcore, kplan, kjoin, kpanicked, CombRest>>

\* The consumer is interested: subscribe to the first source, then to the
\* second.
KJoinInterest(t) ==
    /\ KRunning(t) /\ KTop(t).fn = "closure"
    /\ KTop(t).pc \in {"join_interest", "join_second"}
    /\ LET c == IF KTop(t).pc = "join_interest" THEN KTop(t).cb.a ELSE KTop(t).cb.b IN
       /\ klog' = Append(klog, KEvent("subscribe", c, NoResult))
       /\ kstack' = KCall(t, IF KTop(t).pc = "join_interest" THEN "join_second" ELSE "ret",
                          KFrame("receive", "notify", c, Closure("join_value", c, NoCore),
                                 NoResult))
    /\ UNCHANGED <<kcore, kplan, kjoin, kpanicked, CombRest>>

\* The join has the values of all its sources.
\* Faulty variant of JoinReady: one value is enough.
JoinReadyAny(j) == \E c \in DOMAIN j : j[c] # <<>>
JoinReady(j) == \A c \in DOMAIN j : j[c] # <<>>

\* A source delivered its value: keep it, and complete the joined future
\* with the tuple once every source has delivered.
KJoinValue(t) ==
    /\ KAt(t, "closure", "join_value")
    /\ LET c == KTop(t).cb.a
           j == [kjoin EXCEPT ![c] = KTop(t).arg.v]
       IN  /\ kjoin' = j
           /\ kstack' = IF JoinReady(j)
                        THEN KCall(t, "ret",
                                   KFrame("complete", "lock", Terminal, NoClosure,
                                          Ok(j[Source1] \o j[Source2])))
                        ELSE KGoto(t, "ret")
    /\ UNCHANGED <<kcore, klog, kplan, kpanicked, CombRest>>

JoinStep(t) ==
    \/ KStep(t)
    \/ KJoin(t)
    \/ KJoinInterest(t)
    \/ KJoinValue(t)

JoinNext == \E t \in Threads : JoinStep(t)

JoinSpec == JoinInit /\ [][JoinNext]_vars

\* ------------------------------------------------- vocabulary of the claims
\* The positions of the log at which event e happened.
Happened(e) == {i \in 1..Len(klog) : klog[i].ev = e}

\* --------------------------------------------------------------------- C28
\* C28: map propagates interest lazily.  The source is subscribed to
\* (source.receive is called), the interest callback of the source's
\* producer is fired and f is called only after the consumer has called
\* receive or take on the future that map returned; building the combinator
\* starts no work.
C28_MapIsLazy ==
    \A i \in Happened("subscribe") \cup Happened("interest") \cup Happened("f") :
        \E j \in Happened("consume") : j < i

\* The producer of the source registered its interest callback, map was
\* built, and only the consumer's operation on the mapped future fired that
\* callback; the mapped value was then delivered.
C28_Witness ==
    /\ Happened("interest") # {}
    /\ \E i \in Happened("delivered") : klog[i].r \in {Ok(MapFn(<<v>>)) : v \in Values}

\* --------------------------------------------------------------------- C29
\* C29: map passes an error through unchanged.  When the source resolves to
\* an error, f is not called, and once the consumer has called receive on
\* the mapped future and both threads have finished, the consumer's callback
\* has been handed an error of the same kind and the same description.
C29_ErrorPassesThrough ==
    ~kplan.src[Source1].result.ok =>
       /\ Happened("f") = {}
       /\ (kplan.consumer = "receive" /\ \A t \in Threads : ~KRunning(t)) =>
             \E i \in Happened("delivered") : klog[i].r = kplan.src[Source1].result

\* --------------------------------------------------------------------- C30
\* The positions of the log at which source c was completed.
Completed(c) == {i \in Happened("complete") : klog[i].c = c}
\* The tuple of the values the two sources are completed with.
JoinedValue == Ok(kplan.src[Source1].result.v \o kplan.src[Source2].result.v)

RendezvousParts ==
    (IF val # NoVal THEN 1 ELSE 0)
    + (IF is_consumer_wait(completion) THEN 1 ELSE 0)
    + (IF is_completer_wait(completion) THEN 1 ELSE 0)

\* C31: the core starts Pending with no value, and in every state in which
\* the core's mutex is not held at most one of {value present, consumer
\* waiting, producer waiting} holds.
C31_Rendezvous ==
    /\ is_pending(completion) /\ val = NoVal
    /\ [](mutex = NoThread => RendezvousParts <= 1)

\* complete has put the value for a consumer blocked in take and released
\* the mutex: the value is present and the consumer's wait state is gone.
C31_Witness ==
    /\ mutex = NoThread /\ val # NoVal /\ is_pending(completion)
    /\ consOp = "take" /\ At("cons", "take", "wait") /\ completeRet

\* --------------------------------------------------------------------- C32
\* Thread t is inside a consumer operation, past notify_completer and holding
\* the mutex: receive is about to check for the value or to install its
\* callback, take is about to install ConsumerWait(Sync) or to check for the
\* value.
PastPreamble(t) ==
    /\ Running(t) /\ Top(t).fn \in {"receive", "take"}
    /\ Top(t).pc \in {"notified", "loop"}
    /\ mutex = t

\* Producer callback k was taken out of the core and invoked by the loop of
\* notify_completer.
Drained(k) == \E i \in 1..Len(pcb) : pcb[i].cb = k /\ ~pcb[i].direct /\ pcb[i].called

\* C32: the consumer preamble drains all producer waiters.  When receive or
\* take checks for the value or installs its wait state, no producer wait
\* state is registered and every producer callback that was stored in the
\* core (the first one and those re-registered from inside a callback) has
\* been invoked by notify_completer; so a value reaches the consumer only
\* after the stored producer callbacks have seen the consumer's interest.
C32_PreambleDrains ==
    /\ \A t \in Threads :
          PastPreamble(t) => /\ ~is_completer_wait(completion)
                             /\ \A k \in stored : Drained(k)
    /\ got # <<>> => \A k \in stored : Drained(k)

\* A callback stored by the producer re-registered from inside itself, the
\* consumer's notify_completer invoked both, and the consumer is now past the
\* preamble.
C32_Witness ==
    /\ PastPreamble("cons")
    /\ Cardinality(stored) >= 2
    /\ \A k \in stored : Drained(k)

\* --------------------------------------------------------------------- C33
\* Threads that have linked a node and not yet incremented count, and threads
\* that have unlinked a node and not yet decremented count.
Linking == {t \in QThreads : qpc[t] = "inc"}
Unlinking == {t \in QThreads : qpc[t] = "dec"}

\* C33 as stated: in every state count is the number of items in the list.
C33_CountIsLength == count = Len(QueueContents)

\* C33: count is the number of items in the list whenever no operation is
\* between changing the list and updating count; in between it lags by one
\* at each end: an enqueuer that has linked its node has not yet added 1, a
\* dequeuer that has unlinked a node has not yet subtracted 1.
C33_CountTracksList ==
    /\ Cardinality(Linking) <= 1 /\ Cardinality(Unlinking) <= 1
    /\ count = Len(QueueContents) - Cardinality(Linking) + Cardinality(Unlinking)

\* An enqueuer has linked its node and a dequeuer has unlinked one, neither
\* has updated count yet: the two lags cancel while items remain in the list.
C33_Witness ==
    /\ Linking # {} /\ Unlinking # {}
    /\ Len(QueueContents) >= 1
    /\ count = Len(QueueContents)

\* --------------------------------------------------------------------- C34
\* One notify_one on a condition variable: w is the set of waiters before,
\* w2 the set after.
SignalledOnce(w, w2) ==
    IF w = {} THEN w2 = {}
    ELSE w2 \subseteq w /\ Cardinality(w2) = Cardinality(w) - 1

\* C34: cascading signals.  The step in which an enqueuer adds 1 to count
\* is taken with the last mutex held and keeps it, and when the new count is
\* below the capacity it signals not_full once; the step in which a dequeuer
\* subtracts 1 is taken with the head mutex held and keeps it, and when the
\* new count is above 0 it signals not_empty once.
C34_CascadingSignals ==
    [][\A t \in QThreads :
          /\ (qpc[t] = "inc" /\ qpc'[t] # "inc") =>
                /\ lastLock = t /\ lastLock' = t
                /\ count' = count + 1
                /\ count' < capacity => SignalledOnce(notFull, notFull')
          /\ (qpc[t] = "dec" /\ qpc'[t] # "dec") =>
                /\ headLock = t /\ headLock' = t
                /\ count' = count - 1
                /\ count' > 0 => SignalledOnce(notEmpty, notEmpty')]_vars

\* Two puts were blocked on a full queue; after two dequeues the first one,
\* woken by notify_not_full, enqueued into the empty queue and its cascading
\* signal woke the second (there was no spurious wake-up).
C34_Witness ==
    \E a, b \in QThreads :
        /\ a # b /\ qspurious = 0
        /\ qpc[a] = "unlock_last" /\ qloc[a].waited /\ qloc[a].cnt + 1 < capacity
        /\ qpc[b] = "wait_full" /\ b \notin notFull

\* --------------------------------------------------------------------- C35
\* C35: past its first permit check park holds the mutex: a thread that is
\* about to make the second permit check, to call the condition variable's
\* wait or to make the final unlock owns the mutex.
C35_SlowPathOwnsMutex ==
    \A t \in Threads : ppc[t] \in {"cas2", "wait", "unlock"} => pmutex = t

\* --------------------------------------------------------------------- C36
\* send consumes the SeqProducer, so a sequence built by seq() sees one send
\* and the assertion of put is never reached from SeqInit.  To exercise it,
\* send is applied to a core in every state a sequence leaves its core in
\* (each of them is reached under SeqSpec): the head slot is free or holds
\* the item of an earlier send; the state is Pending, ConsumerWait with the
\* consumer inside take, or ConsumerCb with the consumer's callback stored.
SendCore(h, st, seen) ==
    /\ h \in Values \cup {NoVal}
    /\ st \in {SPending, SConsumerWait, SConsumerCb(1)}
    /\ seen \in {"Ready", "Waiting", "Full"}
    /\ h # NoVal => st.kind # "ConsumerCb"
    /\ st.kind = "Pending" => seen # "Waiting"

SendInit ==
    /\ smutex = NoThread
    /\ SendCore(shead, sstate, slast)
    /\ cprog \in SeqsUpTo(SeqConsumerOps, MaxConsumerOps)
    /\ CASE sstate.kind = "ConsumerWait" ->
              \* the consumer is inside its first operation, a take
              /\ Len(cprog) >= 1 /\ cprog[1] = "take" /\ cidx = 1
              /\ sstack = [t \in Threads |->
                             IF t = "cons"
                             THEN <<SFrame("consumer", "call", 0, NoVal),
                                    SFrame("seq_take", "waiting", 1, NoVal)>>
                             ELSE <<SFrame("producer", "call", 0, NoVal)>>]
              /\ swaiters = IF shead = NoVal THEN {"cons"} ELSE {}
           [] sstate.kind = "ConsumerCb" ->
              \* the consumer's first operation, a receive, has returned
              /\ Len(cprog) >= 1 /\ cprog[1] = "receive" /\ cidx = 1
              /\ sstack = [t \in Threads |->
                             IF t = "cons" THEN <<>>
                             ELSE <<SFrame("producer", "call", 0, NoVal)>>]
              /\ swaiters = {}
           [] OTHER ->
              /\ cidx = 0
              /\ sstack = [t \in Threads |->
                             IF t = "cons" THEN <<SFrame("consumer", "call", 0, NoVal)>>
                             ELSE <<SFrame("producer", "call", 0, NoVal)>>]
              /\ swaiters = {}
    /\ pchain \in 0..MaxInterest
    /\ pfinal \in SeqFinals
    /\ sval \in Values
    /\ pidx = 0
    /\ sinv = <<>> /\ sgot = <<>>
    /\ spanicked = [t \in Threads |-> FALSE]
    /\ sspurious = 0
    /\ FutureOff /\ QueueOff /\ ParkOff /\ PairOff /\ CombOff /\ TimedOff

SendSpec == SendInit /\ [][SeqNext]_vars

\* C36: the head is a single cell.  A send that reaches put while the head
\* slot holds an item panics: the buffered item stays in the head slot, the
\* new value is neither stored nor handed to the consumer.
C36_SingleCell ==
    [][\A t \in Threads :
          (SAt(t, "send", "locked") /\ smutex = t /\ smutex' # t /\ shead # NoVal) =>
              /\ spanicked'[t]
              /\ shead' = shead
              /\ sinv' = sinv /\ sgot' = sgot]_vars

\* A send found the item of an earlier send in the head slot and panicked;
\* the item is still there.
C36_Witness ==
    /\ spanicked["prod"]
    /\ shead # NoVal /\ shead # sval

\* ==========================================================================
\* The timed wait of Park (src/src/sync/park.rs): timed_wait(ms) turns the
\* relative timeout into an absolute timespec with ms_to_abs and waits on the
\* condition variable until that time.
\* ==========================================================================

\* ---------------------------------------------------------------- bounds
\* Largest number of whole seconds in the timeouts tried.
MaxSeconds == 2

MAX_WAIT == 1000000
MS_PER_SEC == 1000
NANOS_PER_MS == 1000000
NANOS_PER_SEC == 1000000000

TimedRest == <<fvars, qvars, pkvars, prvars, sqvars, kvars>>

\* a & b on unsigned integers
RECURSIVE BitAnd(_, _)
BitAnd(a, b) ==
    IF a = 0 \/ b = 0 THEN 0
    ELSE (a % 2) * (b % 2) + 2 * BitAnd(a \div 2, b \div 2)

Timespec(s, n) == [sec |-> s, nsec |-> n]
NoTime == Timespec(0, 0)

\* ms_to_abs(ms) when get_time() returns now.  The sums stay far below the
\* limits of i64 (sec) and i32 (nsec): nsec is at most 1000 + NANOS_PER_MS.
ms_to_abs(now, ms) ==
    LET sec0 == ms \div MS_PER_SEC
        nsec == BitAnd(ms, MS_PER_SEC) + NANOS_PER_MS
        sec  == IF sec0 > MAX_WAIT THEN MAX_WAIT ELSE sec0
        s1   == now.sec + sec
        n1   == now.nsec + nsec
    IN IF n1 >= NANOS_PER_SEC THEN Timespec(s1 + 1, n1 - NANOS_PER_SEC)
       ELSE Timespec(s1, n1)

\* The timeouts tried: every number of whole seconds up to MaxSeconds with a
\* few fractions of a second, and one beyond MAX_WAIT seconds.
TimeoutsMs ==
    ({s * MS_PER_SEC + r : s \in 0..MaxSeconds, r \in {0, 1, 8, 500, 999}} \ {0})
    \cup {1500000500}

\* The clock readings tried: early, in the middle and at the end of a second.
Clock == {Timespec(100, n) : n \in {0, 500000000, 998999000, 999000000, 999999999}}

TimedInit ==
    /\ twms \in TimeoutsMs
    /\ twnow \in Clock
    /\ twabs = NoTime
    /\ twpc = "call"
    /\ FutureOff /\ QueueOff /\ ParkOff /\ PairOff /\ SeqOff /\ CombOff

\* timed_wait: let ts = ms_to_abs(ms)
TimedWaitCall ==
    /\ twpc = "call"
    /\ twabs' = ms_to_abs(twnow, twms)
    /\ twpc' = "timedwait"
    /\ UNCHANGED <<twms, twnow, TimedRest>>

\* timed_wait: pthread_cond_timedwait returns 0 (signalled before the time
\* ts) or ETIMEDOUT (the time ts has come); both give Ok(()).
TimedWaitReturn ==
    /\ twpc = "timedwait"
    /\ twpc' \in {"signalled", "timedout"}
    /\ UNCHANGED <<twms, twnow, twabs, TimedRest>>

TimedNext == TimedWaitCall \/ TimedWaitReturn

TimedSpec == TimedInit /\ [][TimedNext]_vars

\* --------------------------------------------------------------------- C37
\* The time ms milliseconds after the clock reading now.
After(now, ms) ==
    LET s1 == now.sec + ms \div MS_PER_SEC
        n1 == now.nsec + (ms % MS_PER_SEC) * NANOS_PER_MS
    IN IF n1 >= NANOS_PER_SEC THEN Timespec(s1 + 1, n1 - NANOS_PER_SEC)
       ELSE Timespec(s1, n1)

NotLater(a, b) == a.sec < b.sec \/ (a.sec = b.sec /\ a.nsec <= b.nsec)

\* C37: the absolute time that the timed wait waits until is never later
\* than ms milliseconds after the time of the call, so a wait that times out
\* has lasted at most ms milliseconds.
C37_DeadlineWithinTimeout ==
    twpc \in {"timedwait", "signalled", "timedout"} =>
        NotLater(twabs, After(twnow, twms))

\* --------------------------------------------------------------------- C38
\* Thread t is about to acquire one of the two mutexes.
Acquiring(t) ==
    \/ qpc[t] \in {"lock_last", "lock_head", "notify_not_empty", "notify_not_full"}
    \/ qpc[t] = "wait_full" /\ t \notin notFull
    \/ qpc[t] = "wait_empty" /\ t \notin notEmpty

\* C38: no thread holds the head mutex and the last mutex together, a
\* thread that is about to acquire one of them holds neither, and the owner
\* of a mutex can always take its next step: the two locks cannot deadlock.
C38_NeverBothLocks ==
    \A t \in QThreads :
        /\ ~(headLock = t /\ lastLock = t)
        /\ Acquiring(t) => (headLock # t /\ lastLock # t)
        /\ (headLock = t \/ lastLock = t) => ENABLED QStep(t)

\* An enqueuer has dropped the last mutex and holds the head mutex to signal
\* not_empty, while a dequeuer has dropped the head mutex and holds the last
\* mutex to signal not_full.
C38_Witness ==
    \E t, u \in QThreads :
        /\ qpc[t] = "signal_not_empty" /\ headLock = t
        /\ qpc[u] = "signal_not_full" /\ lastLock = u

\* --------------------------------------------------------------------- C39
\* The node after the sentinel.
First == nodes[head].next

\* C39: a dequeuer that has seen count > 0 under the head mutex finds a node
\* after the sentinel: linked (not null), not freed and still holding its
\* item, whatever the enqueuers are doing at the tail; dequeue neither
\* follows a null next nor meets an item that was already taken.
C39_DequeueFindsItem ==
    /\ QNoCrash
    /\ \A t \in QThreads :
          (qpc[t] = "dequeue" /\ headLock = t) =>
              /\ ~nodes[head].freed
              /\ First # Null
              /\ ~nodes[First].freed
              /\ nodes[First].item # None

\* A dequeuer is about to unlink the only node of the list, the tail, while
\* an enqueuer that holds the last mutex is about to link a node behind it.
C39_Witness ==
    \E t, u \in QThreads :
        /\ qpc[t] = "dequeue" /\ headLock = t
        /\ First = last /\ count = 1
        /\ qpc[u] = "enqueue" /\ lastLock = u

\* --------------------------------------------------------------------- C40
\* Frame i of thread t owns a Completer: the producer's code or a producer
\* callback that is about to use it, or an operation of the Completer that
\* has not yet stored, handed on or used up its self.
HoldsCompleter(t, i) ==
    LET fr == stack[t][i] IN
    \/ fr.fn \in {"producer", "cb"} /\ fr.pc = "call" /\ i = Len(stack[t])
    \/ fr.fn \in {"completer_receive", "completer_take"}
         /\ fr.pc \in {"lock", "locked", "wait", "recheck"}
    \/ fr.fn = "complete" /\ fr.pc \in {"lock", "locked"}

LiveCompleters ==
    Cardinality({<<t, i>> \in Threads \X (1..(2 * MaxChain + 3)) :
                    i <= Len(stack[t]) /\ HoldsCompleter(t, i)})

\* C40: at most one Completer is alive for the core, and none while a
\* producer callback is stored in it; the value is put only into the empty
\* slot, before anything was delivered and before any complete returned, so
\* it is put at most once and the assertion of put does not fail (a thread
\* panics only in the unimplemented fail).
C40_OneCompleter ==
    /\ [](/\ LiveCompleters <= 1
          /\ (is_completer_wait(completion) /\ completion.strat = "Callback") =>
                LiveCompleters = 0
          /\ \A t \in Threads : panicked[t] => finalSt = "fail")
    /\ [][(val' # NoVal /\ val' # val) =>
             (val = NoVal /\ got = <<>> /\ ~completeRet)]_vars

\* The Completer was consumed by receive, its callback was stored, the
\* consumer's notify_completer handed a new Completer to that callback, and
\* the callback's complete has put the value; no Completer is left.
C40_Witness ==
    /\ \E i \in 1..Len(pcb) : ~pcb[i].direct
    /\ val # NoVal /\ completeRet
    /\ LiveCompleters = 0
    /\ \A t \in Threads : ~panicked[t]

====
